---------------------------- MODULE Spec2Model ----------------------------
(***************************************************************************)
(* A model of the university-transfer-advisor pipeline:                    *)
(*   - agents/matcher.py : match_percentage_with_notes and _llm_equivalence *)
(*   - run.py            : the per-institution loop of main() with its     *)
(*                         discovery and matching cache stages             *)
(*                                                                         *)
(* Similarity scores are kept in tenths of a point (rapidfuzz returns      *)
(* floats in [0, 100]), confidences and percentages in hundredths.         *)
(***************************************************************************)
EXTENDS Integers, Sequences, FiniteSets, TLC

(***************************************************************************)
(* Bounds of the model.                                                    *)
(***************************************************************************)
MaxMy == 3
MaxUni == 2
MaxRuns == 2
MaxRatioCalls == 4

VARIABLES
    \* ---- agents/matcher.py: match_percentage_with_notes ----
    mpc,                 \* position: "idle" | "call" | "loop" | "returned" | "raised"
    my_courses,          \* parameter my_courses
    uni_courses,         \* parameter uni_courses
    fuzzy_threshold,     \* parameter fuzzy_threshold (tenths)
    llm_band,            \* parameter llm_band, <<low, high>> (tenths)
    llm_conf_threshold,  \* parameter llm_conf_threshold (hundredths)
    groq,                \* what groq_available() answers in this process
    hits,                \* local hits
    notes,               \* local notes
    pct,                 \* returned percentage (hundredths), -1 before the return
    scores,              \* what fuzz.token_set_ratio returned in the last inner loop
    llm_out,             \* what groq_chat did for the last course, NoCall if not called
    ratio_calls,         \* number of fuzz.token_set_ratio calls so far
    llm_calls            \* number of groq_chat calls so far

mvars == <<mpc, uni_courses, fuzzy_threshold, llm_band,
           llm_conf_threshold, groq, hits, notes, pct, scores, llm_out,
           ratio_calls, llm_calls>>

VARIABLES
    \* ---- run.py: main ----
    opc,                 \* position: "idle" | "discovery" | "matching" | "scoring"
                         \*           | "done" | "crashed" (uncaught exception)
    args,                \* the parsed command line: refresh, refresh_discovery,
                         \* refresh_matching
    universities,        \* mission.targets.universities
    idx,                 \* the loop "for u in universities" is at universities[idx]
    disc,                \* artifacts/discovery_<slug>.json, by slug
    match,               \* artifacts/matches_<slug>.json, by slug
    sources,             \* artifacts/sources_<slug>.json, by slug
    discovery,           \* local discovery
    links,               \* local links
    match_pct,           \* local match_pct (hundredths)
    run_notes,           \* local notes of main
    uni_courses_count,   \* local uni_courses_count
    results,             \* local results
    \* ---- what the run did, for the properties ----
    run_no,              \* number of runs started
    disc_found,          \* the discovery artifact the discovery stage found
    match_found,         \* the matches artifact the matching stage found
    disc_executed,       \* the discovery stage of universities[idx] was computed
    match_executed,      \* the matching stage of universities[idx] was computed
    disc_failed,         \* ... and its computation raised
    match_failed,        \* ... and its computation raised
    net_ops,             \* search / browser / download operations of the last stage
    last_plain,          \* the last run had no refresh flag
    repeat_plain         \* this run and the one before it had no refresh flag

ovars == <<opc, args, universities, idx, disc, match, sources, discovery, links,
           match_pct, run_notes, uni_courses_count, results, run_no,
           disc_found, match_found, disc_executed, match_executed, disc_failed,
           match_failed, net_ops, last_plain, repeat_plain>>

VARIABLES
    \* ---- agents/web_researcher.py: discover_program_pages ----
    dpc,                 \* position: "idle" | "call" | "serper" | "fallback"
                         \*           | "returned" | "raised"
    max_pages_in,        \* parameter max_pages as passed
    max_pages,           \* max_pages after line 366
    serper_available,    \* what _serper_available() answers
    d_links,             \* local links
    d_result,            \* the returned list
    serper_calls,        \* number of _serper_search calls
    fallback_calls,      \* number of times the search-page scrape was started
    serper_ok            \* the primary provider's result was returned

dvars == <<dpc, max_pages_in, max_pages, serper_available, d_links, d_result,
           serper_calls, fallback_calls, serper_ok>>

VARIABLES
    \* ---- run.py: the extraction and matching of one institution ----
    epc,                 \* position: "idle" | "call" | "done"
    e_uni,               \* the institution
    e_links,             \* links
    e_fetch,             \* what the fetch of each link does
    e_launch,            \* the browser can be launched
    e_env,               \* what the matcher's collaborators do
    e_out                \* what lines 328-408 leave behind

evars == <<epc, e_uni, e_links, e_fetch, e_launch, e_env, e_out>>

VARIABLES
    \* ---- agents/web_researcher.py: scrape_courses_from_urls ----
    spc,                 \* position: "idle" | "call" | "loop" | "returned" | "raised"
    s_urls,              \* parameter urls
    s_max_urls,          \* parameter max_urls
    s_i,                 \* number of targets the loop has finished
    s_courses,           \* local courses
    s_telemetry,         \* local telemetry
    s_trace,             \* per finished target: what was attempted for it
    s_result             \* the returned course list

svars == <<spc, s_urls, s_max_urls, s_i, s_courses, s_telemetry, s_trace, s_result>>

VARIABLES
    \* ---- agents/web_researcher.py: the text extractor ----
    tpc,                 \* position: "idle" | "call" | "once" | "twice"
    t_text,              \* the text given to the extractor
    t_out,               \* the lines of the first application
    t_again              \* the lines of the application to the joined t_out

tvars == <<tpc, t_text, t_out, t_again>>

VARIABLES
    \* ---- run.py: _score_url ----
    kpc,                 \* position: "idle" | "call" | "once" | "twice"
    k_url,               \* the URL that is scored twice
    k_query,             \* query
    k_domains,           \* preferred_domains
    k_history,           \* the reasons every call so far has produced
    k_others,            \* number of calls made for other URLs
    k_first,             \* result of the first call for k_url
    k_second             \* result of the second call for k_url

kvars == <<kpc, k_url, k_query, k_domains, k_history, k_others, k_first, k_second>>

VARIABLES
    \* ---- agents/web_researcher.py: the fetch cache ----
    cpc,                 \* "idle" | "run"
    c_bin,               \* per URL: size of artifacts/cache_pages/<sha1>.bin, -1 if absent
    c_html,              \* per URL: size of artifacts/cache_pages/<sha1>.html, -1 if absent
    c_last               \* the last fetch: what it found and what it did

cvars == <<cpc, c_bin, c_html, c_last>>

VARIABLES
    \* ---- agents/web_researcher.py: the query sent to each provider ----
    qpc,                 \* "idle" | "call" | "done"
    q_query,             \* argument query
    q_domains,           \* argument preferred_domains
    q_primary,           \* the text submitted to the primary provider
    q_fallback           \* the text submitted to the fallback provider

qvars == <<qpc, q_query, q_domains, q_primary, q_fallback>>

VARIABLES
    \* ---- run.py: _discover_and_rank ----
    gpc,                 \* "idle" | "q1" | "q2" | "rank" | "done"
    g_uni,               \* argument uni
    g_domains,           \* argument preferred_domains
    g_top_k,             \* argument top_k
    g_calls,             \* the queries passed to discover_program_pages, in order
    g_raw1,              \* what the first discovery returned
    g_raw2,              \* what the second discovery returned
    g_raw,               \* local raw
    g_out                \* the returned dictionary, or the exception

gvars == <<gpc, g_uni, g_domains, g_top_k, g_calls, g_raw1, g_raw2, g_raw, g_out>>

\* the variables of the cache, the query builder and the ranking
fvars == <<cvars, qvars, gvars>>

\* the variables of the functions that are checked on their own
xvars == <<dvars, evars, svars, tvars, kvars, fvars>>

vars == <<mvars, my_courses, ovars, xvars>>

(***************************************************************************)
(* Small helpers.                                                          *)
(***************************************************************************)
Prefix(s, n) == SubSeq(s, 1, IF n < Len(s) THEN n ELSE Len(s))

Min2(a, b) == IF a < b THEN a ELSE b

Max2(a, b) == IF a > b THEN a ELSE b

(***************************************************************************)
(* Inputs of the matcher.                                                  *)
(***************************************************************************)
\* course names of the user, taken in this order
MyPool == <<"Data Structures", "Linear Algebra", "Operating Systems", "Networks">>

\* candidate course lines; the empty string is a falsy best_uc in Python
UniPool == <<"Estructuras de Datos y Algoritmos", "", "Calculo I", "Redes">>

\* token_set_ratio results, in tenths: the lower edge of the default band, its
\* upper edge, a float between band and threshold, the default threshold
ScoreVals == {550, 740, 745, 750}

\* (fuzzy_threshold, llm_band, llm_conf_threshold): the defaults of the
\* signature; a band that reaches past the threshold; a one-point band (550 is
\* below it) with a stricter classifier gate
DefaultParams == [fuzzy_threshold |-> 750, llm_band |-> <<550, 740>>, llm_conf_threshold |-> 70]

ParamChoices ==
    { DefaultParams,
      [fuzzy_threshold |-> 740, llm_band |-> <<550, 745>>, llm_conf_threshold |-> 70],
      [fuzzy_threshold |-> 750, llm_band |-> <<740, 740>>, llm_conf_threshold |-> 100] }

NoCall == [kind |-> "nocall", equivalent |-> FALSE, confidence |-> 0, reason |-> ""]

\* What one groq_chat call can do: raise (network, API, empty content), return
\* text that is not the expected JSON object, or return a JSON verdict
\* (confidence in hundredths; 150 and -10 are clamped by _llm_equivalence).
LlmResponses ==
    { [kind |-> "raise", equivalent |-> FALSE, confidence |-> 0, reason |-> ""],
      [kind |-> "garbage", equivalent |-> FALSE, confidence |-> 0, reason |-> ""],
      [kind |-> "json", equivalent |-> TRUE, confidence |-> 70, reason |-> "mismo tema"],
      [kind |-> "json", equivalent |-> TRUE, confidence |-> 69, reason |-> "mismo tema"],
      [kind |-> "json", equivalent |-> FALSE, confidence |-> 100, reason |-> "otro tema"],
      [kind |-> "json", equivalent |-> TRUE, confidence |-> 150, reason |-> ""],
      [kind |-> "json", equivalent |-> FALSE, confidence |-> -10, reason |-> ""] }

(***************************************************************************)
(* agents/matcher.py                                                       *)
(***************************************************************************)
Reason(text, conf, detail) == [text |-> text, conf |-> conf, detail |-> detail]

\* mutant: the note names the candidate instead of the user course
Note_CourseFromCandidate(mc, uc, method, score, conf, reason) ==
    [my_course |-> uc, best_match |-> uc, method |-> method, score |-> score,
     llm_conf |-> conf, reason |-> reason]

Note(mc, uc, method, score, conf, reason) ==
    [my_course |-> mc, best_match |-> uc, method |-> method, score |-> score,
     llm_conf |-> conf, reason |-> reason]

\* groq_chat is called outside the try; the parse is inside
_llm_equivalence(resp) ==
    IF resp.kind = "raise"
    THEN [raised |-> TRUE, eq |-> FALSE, conf |-> 0, reason |-> Reason("", 0, "")]
    ELSE IF resp.kind = "json"
    THEN [raised |-> FALSE,
          eq |-> resp.equivalent,
          conf |-> Max2(0, Min2(100, resp.confidence)),
          reason |-> IF resp.reason = ""
                     THEN Reason("LLM: no reason provided", 0, "")
                     ELSE Reason(resp.reason, 0, "")]
    ELSE [raised |-> FALSE, eq |-> FALSE, conf |-> 0,
          reason |-> Reason("LLM parse error", 0, "out[:120]")]

\* the inner loop over uni_courses: best_score starts at -1, a later candidate
\* replaces the best only with a strictly greater score
RECURSIVE BestFrom(_, _, _, _)
BestFrom(row, k, best_score, best_idx) ==
    IF k > Len(row) THEN <<best_score, best_idx>>
    ELSE IF row[k] > best_score
         THEN BestFrom(row, k + 1, row[k], k)
         ELSE BestFrom(row, k + 1, best_score, best_idx)

Best(row) == BestFrom(row, 1, -10, 0)

\* int(best_score)
IntScore(s) == s \div 10

\* mutant: the threshold itself is not a hit
IsFuzzyHit_Strict(best_score, thr) == best_score > thr

\* "if best_score >= fuzzy_threshold"
IsFuzzyHit(best_score, thr) == best_score >= thr

\* mutant: the classifier is asked without looking at groq_available()
Escalates_IgnoresAvailability(best_score, band, available, best_uc) ==
    /\ band[1] <= best_score
    /\ best_score <= band[2]
    /\ best_uc # ""

\* "low <= best_score <= high and groq_available() and best_uc"
Escalates(best_score, band, available, best_uc) ==
    /\ band[1] <= best_score
    /\ best_score <= band[2]
    /\ available
    /\ best_uc # ""

\* "if eq and conf >= llm_conf_threshold"
LlmAccepts(eq, conf, thr) == eq /\ conf >= thr

\* round(100.0 * hits / max(1, len(my_courses)), 2), in hundredths
\* mutant: the percentage is cut to 2 decimals instead of rounded
Percentage_Truncated(h, n) == (10000 * h) \div Max2(1, n)

\* line 146, in hundredths: round(100.0 * hits / max(1, len(my_courses)), 2)
Percentage(h, n) == (2 * 10000 * h + Max2(1, n)) \div (2 * Max2(1, n))

\* whether the iteration reaches "__llm_equivalence(mc, best_uc)" (line 114)
Consults(uni, row, thr, band, available) ==
    /\ ~IsFuzzyHit(Best(row)[1], thr)
    /\ Escalates(Best(row)[1], band, available,
                 IF Best(row)[2] = 0 THEN "None" ELSE uni[Best(row)[2]])

\* the body of "for mc in my_courses" (lines 88-144) for one course: row holds
\* the token_set_ratio results of the inner loop, resp what groq_chat does if
\* it is called
CourseStep(mc, uni, row, resp, thr, band, cthr, available) ==
    LET b == Best(row)
        best_score == b[1]
        best_uc == IF b[2] = 0 THEN "None" ELSE uni[b[2]]
        r == _llm_equivalence(resp)
    IN  IF IsFuzzyHit(best_score, thr)
        THEN [raised |-> FALSE, called |-> FALSE, hit |-> TRUE,
              note |-> Note(mc, best_uc, "fuzzy", IntScore(best_score), 0,
                            Reason("High fuzzy similarity", 0, ""))]
        ELSE IF Escalates(best_score, band, available, best_uc)
        THEN IF r.raised
             THEN [raised |-> TRUE, called |-> TRUE, hit |-> FALSE,
                   note |-> Note(mc, best_uc, "none", IntScore(best_score), 0,
                                 Reason("", 0, ""))]
             ELSE IF LlmAccepts(r.eq, r.conf, cthr)
             THEN [raised |-> FALSE, called |-> TRUE, hit |-> TRUE,
                   note |-> Note(mc, best_uc, "llm", IntScore(best_score), r.conf,
                                 r.reason)]
             ELSE [raised |-> FALSE, called |-> TRUE, hit |-> FALSE,
                   note |-> Note(mc, best_uc, "none", IntScore(best_score), r.conf,
                                 Reason("LLM says not equivalent", r.conf,
                                        r.reason.text))]
        ELSE [raised |-> FALSE, called |-> FALSE, hit |-> FALSE,
              note |-> Note(mc, best_uc, "none", IntScore(best_score), 0,
                            Reason("Below threshold", 0, ""))]

NoUniNotes(my) ==
    [i \in 1..Len(my) |->
        Note(my[i], "None", "none", 0, 0, Reason("No uni courses", 0, ""))]

(***************************************************************************)
(* run.py: names, slugs and URLs.  A name is a sequence of characters, a   *)
(* URL a sequence of tokens (origin, path parts, extension, "?", query).   *)
(***************************************************************************)
Lower(c) ==
    CASE c = "U" -> "u" [] c = "P" -> "p" [] c = "M" -> "m"
      [] c = "L" -> "l" [] c = "E" -> "e"
      [] c = ".PDF" -> ".pdf" [] c = "GUIA" -> "guia"
      [] c = "ASIGNATURA 01" -> "asignatura 01"
      [] OTHER -> c

LowerSeq(s) == [i \in 1..Len(s) |-> Lower(s[i])]

\* the characters of [a-z0-9] that occur in the model's names
IsSlugChar(c) == c \in {"u", "p", "m", "l", "e", "n", "i"}

\* str.strip(chars)
RECURSIVE LStrip(_, _)
LStrip(s, chars) ==
    IF s # <<>> /\ s[1] \in chars THEN LStrip(Tail(s), chars) ELSE s

RECURSIVE RStrip(_, _)
RStrip(s, chars) ==
    IF s # <<>> /\ s[Len(s)] \in chars
    THEN RStrip(SubSeq(s, 1, Len(s) - 1), chars) ELSE s

Strip(s, chars) == RStrip(LStrip(s, chars), chars)

Whitespace == {" "}

\* re.sub(r"[^a-z0-9]+", "_", s): every maximal run of other characters
\* becomes one "_"
RECURSIVE SubNonSlugRuns(_, _, _)
SubNonSlugRuns(s, i, inRun) ==
    IF i > Len(s) THEN <<>>
    ELSE IF IsSlugChar(s[i]) THEN <<s[i]>> \o SubNonSlugRuns(s, i + 1, FALSE)
    ELSE IF inRun THEN SubNonSlugRuns(s, i + 1, TRUE)
    ELSE <<"_">> \o SubNonSlugRuns(s, i + 1, TRUE)

\* re.sub(r"_+", "_", s)
RECURSIVE SubUnderscoreRuns(_, _, _)
SubUnderscoreRuns(s, i, inRun) ==
    IF i > Len(s) THEN <<>>
    ELSE IF s[i] # "_" THEN <<s[i]>> \o SubUnderscoreRuns(s, i + 1, FALSE)
    ELSE IF inRun THEN SubUnderscoreRuns(s, i + 1, TRUE)
    ELSE <<"_">> \o SubUnderscoreRuns(s, i + 1, TRUE)

SlugMax == 80

slugify(name) ==
    LET s1 == Strip(LowerSeq(name), Whitespace)
        s2 == SubNonSlugRuns(s1, 1, FALSE)
        s3 == Strip(SubUnderscoreRuns(s2, 1, FALSE), {"_"})
        s4 == Prefix(s3, SlugMax)
    IN  IF s4 = <<>> THEN <<"u", "n", "i">> ELSE s4

\* "needle in haystack" for strings
Contains(haystack, needle) ==
    \E i \in 0..(Len(haystack) - Len(needle)) :
        SubSeq(haystack, i + 1, i + Len(needle)) = needle

\* institutions of the mission file
UPM == <<"U", "P", "M">>
UPM_DOT == <<"U", "P", "M", ".">>
ULE == <<"U", "L", "E">>

InstitutionPool == <<UPM, UPM_DOT, ULE>>

Slugs == {slugify(InstitutionPool[i]) : i \in 1..Len(InstitutionPool)}

\* line 335: the institutions handled PDF-first
IsPdfFirst(uni) ==
    \/ Contains(LowerSeq(uni), <<"m", "a", "d", "r", "i", "d">>)
    \/ Contains(LowerSeq(uni), <<"u", "p", "m">>)

HtmlUrl == <<"https://www.upm.es/", "plan-de-estudios">>
PdfUrl == <<"https://www.upm.es/", "guia", ".pdf">>
PdfUrlQuery == <<"https://www.upm.es/", "GUIA", ".PDF", "?", "v=2">>

\* url.split("?")[0]
RECURSIVE BeforeQuery(_)
BeforeQuery(url) ==
    IF url = <<>> \/ url[1] = "?" THEN <<>>
    ELSE <<url[1]>> \o BeforeQuery(Tail(url))

\* url.lower().split("?")[0].endswith(".pdf")
_is_pdf(url) ==
    LET head == BeforeQuery(LowerSeq(url))
    IN  head # <<>> /\ head[Len(head)] = ".pdf"

(***************************************************************************)
(* run.py: artifact files.  A file is absent, unreadable as JSON (or the   *)
(* JSON null, which _read_json also returns as None), or holds a JSON      *)
(* value: a dict with the keys it has, a list of strings, a number.        *)
(***************************************************************************)
File(kind, keys, body) == [kind |-> kind, keys |-> keys, body |-> body]

NoFile == File("nofile", {}, <<>>)

Unreadable == File("unreadable", {}, <<>>)

\* the None of Python
None == File("None", {}, <<>>)

\* path.exists()
Exists(f) == f.kind # "nofile"

\* a reader that accepts JSON objects only
_read_json_ObjectsOnly(f) == IF f.kind = "dict" THEN f ELSE None

\* _read_json: None when the file is missing, unparseable, or holds null
_read_json(f) == IF f.kind \in {"nofile", "unreadable"} THEN None ELSE f

\* Python truthiness of a JSON value: a non-empty container, a non-zero number
Truthy(v) ==
    \/ v.kind = "dict" /\ v.keys # {}
    \/ v.kind = "list" /\ v.keys # {}
    \/ v.kind = "number"

\* scraped pages: the lines the extractor finds on each URL
LinePool ==
    << "asignatura 01", "asignatura 02", "asignatura 03", "asignatura 04",
      "asignatura 05", "asignatura 06", "asignatura 07", "asignatura 08",
      "asignatura 09", "asignatura 10", "asignatura 11", "asignatura 12",
      "asignatura 13", "asignatura 14", "asignatura 15", "asignatura 16",
      "asignatura 17", "asignatura 18", "asignatura 19", "asignatura 20",
      "asignatura 21", "asignatura 22", "asignatura 23", "asignatura 24",
      "asignatura 25", "asignatura 26", "asignatura 27", "asignatura 28",
      "asignatura 29", "asignatura 30", "asignatura 31", "asignatura 32",
      "asignatura 33", "asignatura 34", "asignatura 35", "asignatura 36",
      "asignatura 37", "asignatura 38", "asignatura 39", "asignatura 40",
      "asignatura 41", "asignatura 42", "asignatura 43", "asignatura 44",
      "asignatura 45" >>

PageLines(url) ==
    IF url = HtmlUrl THEN <<"ASIGNATURA 01">> \o SubSeq(LinePool, 2, 4)
    ELSE IF url = PdfUrl THEN SubSeq(LinePool, 1, 41)
    ELSE IF url = PdfUrlQuery THEN <<"asignatura 01">> \o SubSeq(LinePool, 40, 45)
    ELSE SubSeq(LinePool, 40, 45)

(***************************************************************************)
(* agents/web_researcher.py as main() uses it.  What a fetch of one URL    *)
(* does is the environment's choice: "ok", "fail" (HTML and PDF path       *)
(* fail), "fallback_ok" (the HTML path fails, the PDF fallback works).     *)
(***************************************************************************)
CourseCap == 300
PdfLowWater == 40
LinksCap == 5
ScrapeCap == 3
TopUpCap == 2

FetchOutcomes(url) ==
    IF _is_pdf(url) THEN {"ok", "fail"} ELSE {"ok", "fail", "fallback_ok"}

RECURSIVE Flatten(_)
Flatten(ss) == IF ss = <<>> THEN <<>> ELSE ss[1] \o Flatten(Tail(ss))

\* keep the first of the entries that have the same key
RECURSIVE DedupeFrom(_, _, _, _)
DedupeFrom(s, i, seen, caseless) ==
    IF i > Len(s) THEN <<>>
    ELSE LET k == IF caseless THEN Lower(s[i]) ELSE s[i]
         IN  IF k \in seen THEN DedupeFrom(s, i + 1, seen, caseless)
             ELSE <<s[i]>> \o DedupeFrom(s, i + 1, seen \cup {k}, caseless)

\* the seen/out loop and the cap of _final_filter_and_dedupe (the lines of
\* PageLines are course lines: none is dropped by the text filters)
FinalDedupe(courses) == Prefix(DedupeFrom(courses, 1, {}, TRUE), CourseCap)

\* list(dict.fromkeys(xs)), and _dedupe_keep_order
DedupeExact(xs) == DedupeFrom(xs, 1, {}, FALSE)

\* an item of scrape_courses_from_urls; error "" is Python's None
Telemetry(url, kind, extracted_lines, error) ==
    [url |-> url, kind |-> kind, extracted_lines |-> extracted_lines,
     error |-> error, fields |-> {"url", "kind", "extracted_lines", "error"}]

\* run.py line 341: the entry main writes for a PDF it extracts itself;
\* extracted_lines -1 is Python's None
StaticTelemetry(url) ==
    [url |-> url, kind |-> "pdf", extracted_lines |-> -1, error |-> "",
     fields |-> {"url", "kind", "extracted_lines", "note"}]

\* scrape_courses_from_urls(urls, max_urls, return_telemetry=True), the browser
\* being launched
scrape_courses_from_urls(urls, max_urls, fetch) ==
    LET targets == Prefix(urls, max_urls)
        LinesAt(i) == IF fetch[targets[i]] = "fail" THEN <<>> ELSE PageLines(targets[i])
        item(i) ==
            LET href == targets[i]
            IN  CASE fetch[href] = "ok" ->
                       Telemetry(href, IF _is_pdf(href) THEN "pdf" ELSE "html",
                                 Len(LinesAt(i)), "")
                  [] fetch[href] = "fallback_ok" ->
                       Telemetry(href, "pdf_fallback", Len(LinesAt(i)), "")
                  [] OTHER ->
                       Telemetry(href, IF _is_pdf(href) THEN "pdf" ELSE "html", 0,
                                 IF _is_pdf(href) THEN "e"
                                 ELSE "e | PDF fallback failed: e2")
    IN  [courses |-> FinalDedupe(Flatten([i \in 1..Len(targets) |-> LinesAt(i)])),
         telemetry |-> [i \in 1..Len(targets) |-> item(i)]]

\* extract_courses_from_pdf_urls(urls)
extract_courses_from_pdf_urls(urls, fetch) ==
    FinalDedupe(Flatten([i \in 1..Len(urls) |->
        IF fetch[urls[i]] = "fail" THEN <<>> ELSE PageLines(urls[i])]))

\* lines 329-357: the extraction strategy of main
Extract(uni, lnks, fetch) ==
    LET pdf_links == SelectSeq(lnks, _is_pdf)
        NotPdf(x) == ~_is_pdf(x)
        html_links == SelectSeq(lnks, NotPdf)
        from_pdf == extract_courses_from_pdf_urls(Prefix(pdf_links, ScrapeCap), fetch)
        pdf_telemetry == [i \in 1..Len(Prefix(pdf_links, ScrapeCap)) |->
                             StaticTelemetry(pdf_links[i])]
        top_up == scrape_courses_from_urls(Prefix(html_links, TopUpCap), TopUpCap, fetch)
        html_only == scrape_courses_from_urls(Prefix(html_links, ScrapeCap), ScrapeCap, fetch)
        generic == scrape_courses_from_urls(Prefix(lnks, ScrapeCap), ScrapeCap, fetch)
    IN  IF IsPdfFirst(uni)
        THEN IF pdf_links # <<>>
             THEN IF Len(from_pdf) < PdfLowWater /\ html_links # <<>>
                  THEN [browser |-> TRUE,
                        download |-> TRUE,
                        uni_courses |-> DedupeExact(from_pdf \o top_up.courses),
                        telemetry |-> pdf_telemetry \o top_up.telemetry]
                  ELSE [browser |-> FALSE,
                        download |-> TRUE,
                        uni_courses |-> DedupeExact(from_pdf),
                        telemetry |-> pdf_telemetry]
             ELSE [browser |-> TRUE,
                   download |-> \E i \in 1..Len(html_links) : fetch[html_links[i]] # "ok",
                   uni_courses |-> DedupeExact(html_only.courses),
                   telemetry |-> html_only.telemetry]
        ELSE [browser |-> TRUE,
              download |-> \E i \in 1..Len(Prefix(lnks, ScrapeCap)) :
                               _is_pdf(lnks[i]) \/ fetch[lnks[i]] # "ok",
              uni_courses |-> DedupeExact(generic.courses),
              telemetry |-> generic.telemetry]

\* match_percentage_with_notes(my_courses, uni_courses) with the defaults of
\* its signature; env[i] is what the ratio calls (every candidate scores
\* env[i].score) and the classifier do for course i
RECURSIVE MatchLoop(_, _, _, _, _, _)
MatchLoop(my, uni, env, i, h, ns) ==
    IF i > Len(my)
    THEN [raised |-> FALSE, pct |-> Percentage(h, Len(my)), notes |-> ns]
    ELSE LET step == CourseStep(my[i], uni, [k \in 1..Len(uni) |-> env[i].score],
                                env[i].resp, DefaultParams.fuzzy_threshold,
                                DefaultParams.llm_band,
                                DefaultParams.llm_conf_threshold, env[i].available)
         IN  IF step.raised
             THEN [raised |-> TRUE, pct |-> 0, notes |-> <<>>]
             ELSE MatchLoop(my, uni, env, i + 1, IF step.hit THEN h + 1 ELSE h,
                            Append(ns, step.note))

match_percentage_with_notes(my, uni, env) ==
    IF my = <<>> THEN [raised |-> FALSE, pct |-> 0, notes |-> <<>>]
    ELSE IF uni = <<>> THEN [raised |-> FALSE, pct |-> 0, notes |-> NoUniNotes(my)]
    ELSE MatchLoop(my, uni, env, 1, 0, <<>>)

\* what the matcher's collaborators do for one course in a run of main
CourseEnvs ==
    { [score |-> 750, available |-> FALSE, resp |-> NoCall],
      [score |-> 550, available |-> FALSE, resp |-> NoCall],
      [score |-> 550, available |-> TRUE,
       resp |-> [kind |-> "raise", equivalent |-> FALSE, confidence |-> 0,
                 reason |-> ""]] }

(***************************************************************************)
(* run.py: main                                                            *)
(***************************************************************************)
Target(name, city) == [name |-> name, city |-> city]

Madrid == <<"M", "a", "d", "r", "i", "d">>
Leon == <<"L", "e", "o", "n">>

TargetPool == <<Target(UPM, Madrid), Target(UPM_DOT, Madrid), Target(ULE, Leon)>>

\* the missions: two institutions that share a slug, and two that do not
Missions == {SubSeq(TargetPool, 1, 2), SubSeq(TargetPool, 2, 3)}

\* lines 233-234
refresh_discovery == args.refresh \/ args.refresh_discovery

refresh_matching == args.refresh \/ args.refresh_matching

NoRefresh == ~args.refresh /\ ~args.refresh_discovery /\ ~args.refresh_matching

Args(r, rd, rm) == [refresh |-> r, refresh_discovery |-> rd, refresh_matching |-> rm]

\* the command lines: no flag, --refresh, --refresh-discovery, --refresh-matching
ArgChoices ==
    {Args(FALSE, FALSE, FALSE), Args(TRUE, FALSE, FALSE),
     Args(FALSE, TRUE, FALSE), Args(FALSE, FALSE, TRUE)}

\* line 282
top_k(u) ==
    IF Contains(LowerSeq(u.city), LowerSeq(Madrid)) \/ Contains(LowerSeq(u.name), LowerSeq(Madrid))
    THEN 5 ELSE 4

DiscBody(university, queries_used, selected, candidates) ==
    [university |-> university, queries_used |-> queries_used,
     selected |-> selected, candidates |-> candidates]

NoDiscBody == DiscBody(<<>>, 0, <<>>, <<>>)

DiscKeys == {"university", "city", "program_query", "queries_used",
             "preferred_domains", "selected", "candidates"}

MatchBody(university, lnks, my_n, uni_n, p, ms, numeric) ==
    [university |-> university, links |-> lnks, my_courses_count |-> my_n,
     uni_courses_count |-> uni_n, match_pct |-> p, matches |-> ms,
     pct_is_number |-> numeric]

NoMatchBody == MatchBody(<<>>, <<>>, 0, 0, 0, <<>>, TRUE)

MatchKeys == {"university", "city", "query", "links", "preferred_domains",
              "my_courses_count", "uni_courses_count", "match_pct", "matches"}

SourcesBody(university, links_used, telemetry) ==
    [university |-> university, links_used |-> links_used, telemetry |-> telemetry]

SourcesKeys == {"university", "city", "links_used", "telemetry"}

\* what _discover_and_rank can do: raise, or return its ranked candidates
\* (the two discover_program_pages calls found nothing, or a PDF and a page)
DiscoverOutcomes ==
    { [raised |-> TRUE, candidates |-> <<>>],
      [raised |-> FALSE, candidates |-> <<>>],
      [raised |-> FALSE, candidates |-> <<PdfUrl, HtmlUrl>>] }

\* lines 284-293 and 297-306: the artifact written after the try and after
\* the except
DiscoveryArtifact(u, out) ==
    IF out.raised
    THEN File("dict", DiscKeys, DiscBody(u.name, 0, <<>>, <<>>))
    ELSE File("dict", DiscKeys,
              DiscBody(u.name, 2, Prefix(out.candidates, Max2(1, top_k(u))),
                       out.candidates))

\* a discovery_<slug>.json that main can find in artifacts/ when it starts:
\* truncated, the JSON [], the JSON {}, or a discovery of an earlier version
FoundDiscovery ==
    { Unreadable,
      File("list", {}, NoDiscBody),
      File("dict", {}, NoDiscBody),
      File("dict", DiscKeys, DiscBody(ULE, 2, <<HtmlUrl>>, <<HtmlUrl>>)) }

\* a matches_<slug>.json that main can find: truncated, the JSON
\* ["match_pct", "matches"], an object without the two keys, an object whose
\* match_pct is not a number
FoundMatches ==
    { Unreadable,
      File("list", {"match_pct", "matches"}, NoMatchBody),
      File("dict", {"university"}, NoMatchBody),
      File("dict", MatchKeys, MatchBody(ULE, <<>>, 1, 0, 0, <<>>, FALSE)) }

\* artifacts/ when the first run starts: empty, or holding one such file
EmptyDirectory ==
    [disc |-> [g \in Slugs |-> NoFile], match |-> [g \in Slugs |-> NoFile]]

Directories ==
    LET empty == [g \in Slugs |-> NoFile]
    IN  {EmptyDirectory}
        \cup {[disc |-> [empty EXCEPT ![g] = f], match |-> empty] :
                 g \in Slugs, f \in FoundDiscovery}
        \cup {[disc |-> empty, match |-> [empty EXCEPT ![g] = f]] :
                 g \in Slugs, f \in FoundMatches}

NoDiscovery == File("None", {}, NoDiscBody)

ResultRow(university, p, links_n, extracted) ==
    [university |-> university, match_pct |-> p, links |-> links_n,
     extracted |-> extracted]

\* before the first run of main, artifacts/ being d
OrchestratorStart(d) ==
    /\ opc = "idle"
    /\ args = [refresh |-> FALSE, refresh_discovery |-> FALSE, refresh_matching |-> FALSE]
    /\ universities = <<>>
    /\ idx = 0
    /\ disc = d.disc
    /\ match = d.match
    /\ sources = [g \in Slugs |-> NoFile]
    /\ discovery = NoDiscovery
    /\ links = <<>>
    /\ match_pct = 0
    /\ run_notes = <<>>
    /\ uni_courses_count = 0
    /\ results = <<>>
    /\ run_no = 0
    /\ disc_found = NoFile
    /\ match_found = NoFile
    /\ disc_executed = FALSE
    /\ match_executed = FALSE
    /\ disc_failed = FALSE
    /\ match_failed = FALSE
    /\ net_ops = {}
    /\ last_plain = FALSE
    /\ repeat_plain = FALSE

OrchestratorIdle == OrchestratorStart(EmptyDirectory)

DiscoverIdle ==
    /\ dpc = "idle"
    /\ max_pages_in = 0
    /\ max_pages = 0
    /\ serper_available = FALSE
    /\ d_links = <<>>
    /\ d_result = <<>>
    /\ serper_calls = 0
    /\ fallback_calls = 0
    /\ serper_ok = FALSE

\* the result of lines 328-408 before they have run
NoOutcome ==
    [failed |-> FALSE, sources |-> NoFile, match |-> NoFile, match_pct |-> 0,
     notes |-> <<>>, uni_courses_count |-> 0, net_ops |-> {}]

ExtractIdle ==
    /\ epc = "idle"
    /\ e_uni = Target(<<>>, <<>>)
    /\ e_links = <<>>
    /\ e_fetch = <<>>
    /\ e_launch = FALSE
    /\ e_env = <<>>
    /\ e_out = NoOutcome

ScrapeIdle ==
    /\ spc = "idle"
    /\ s_urls = <<>>
    /\ s_max_urls = 0
    /\ s_i = 0
    /\ s_courses = <<>>
    /\ s_telemetry = <<>>
    /\ s_trace = <<>>
    /\ s_result = <<>>

TextIdle ==
    /\ tpc = "idle"
    /\ t_text = <<>>
    /\ t_out = <<>>
    /\ t_again = <<>>

\* a result of _score_url
Scored(score, reasons) == [score |-> score, reasons |-> reasons]

RankIdle ==
    /\ kpc = "idle"
    /\ k_url = <<>>
    /\ k_query = <<>>
    /\ k_domains = <<>>
    /\ k_history = <<>>
    /\ k_others = 0
    /\ k_first = Scored(0, <<>>)
    /\ k_second = Scored(0, <<>>)

\* a fetch: the size of the cached file it found, whether it went to the
\* network, whether it returned the cached content, whether it raised
Fetch(op, url, found, network, cached, raised) ==
    [op |-> op, url |-> url, found |-> found, network |-> network,
     cached |-> cached, raised |-> raised]

NoFetch == Fetch("none", <<>>, -1, FALSE, FALSE, FALSE)

CacheIdle ==
    /\ cpc = "idle"
    /\ c_bin = <<>>
    /\ c_html = <<>>
    /\ c_last = NoFetch

QueryIdle ==
    /\ qpc = "idle"
    /\ q_query = <<>>
    /\ q_domains = <<>>
    /\ q_primary = <<>>
    /\ q_fallback = <<>>

\* _discover_and_rank has returned nothing
NoRanking == [raised |-> FALSE, queries |-> <<>>, selected |-> <<>>, candidates |-> <<>>]

GatherIdle ==
    /\ gpc = "idle"
    /\ g_uni = <<>>
    /\ g_domains = <<>>
    /\ g_top_k = 0
    /\ g_calls = <<>>
    /\ g_raw1 = <<>>
    /\ g_raw2 = <<>>
    /\ g_raw = <<>>
    /\ g_out = NoRanking

\* the cache, the query builder and the ranking are not running
RestIdle == CacheIdle /\ QueryIdle /\ GatherIdle

\* the functions checked on their own are not running
OthersIdle ==
    DiscoverIdle /\ ExtractIdle /\ ScrapeIdle /\ TextIdle /\ RankIdle /\ RestIdle

MatcherIdle ==
    /\ mpc = "idle"
    /\ uni_courses = <<>>
    /\ fuzzy_threshold = DefaultParams.fuzzy_threshold
    /\ llm_band = DefaultParams.llm_band
    /\ llm_conf_threshold = DefaultParams.llm_conf_threshold
    /\ groq = FALSE
    /\ hits = 0
    /\ notes = <<>>
    /\ pct = -1
    /\ scores = <<>>
    /\ llm_out = NoCall
    /\ ratio_calls = 0
    /\ llm_calls = 0

(***************************************************************************)
(* The orchestrator: runs of main over one artifacts/ directory.           *)
(***************************************************************************)
Init ==
    /\ MatcherIdle
    /\ my_courses = Prefix(MyPool, 1)
    /\ \E d \in Directories : OrchestratorStart(d)
    /\ OthersIdle

Cur == universities[idx]

Slug == slugify(Cur.name)

StageMarks == <<disc_found, match_found, disc_executed, match_executed,
                disc_failed, match_failed>>

\* python run.py [--refresh] [--refresh-discovery] [--refresh-matching]:
\* lines 224-250, up to the first iteration of the loop
StartRun ==
    /\ opc \in {"idle", "done", "crashed"}
    /\ run_no < MaxRuns
    /\ \E a \in ArgChoices, m \in Missions :
          /\ universities = <<>> \/ m = universities
          /\ args' = a
          /\ universities' = m
          /\ repeat_plain' = (last_plain /\ ~a.refresh /\ ~a.refresh_discovery
                                /\ ~a.refresh_matching)
          /\ last_plain' = (~a.refresh /\ ~a.refresh_discovery /\ ~a.refresh_matching)
    /\ run_no' = run_no + 1
    /\ idx' = 1
    /\ results' = <<>>
    /\ net_ops' = {}
    /\ disc_found' = NoFile
    /\ match_found' = NoFile
    /\ disc_executed' = FALSE
    /\ match_executed' = FALSE
    /\ disc_failed' = FALSE
    /\ match_failed' = FALSE
    /\ opc' = "discovery"
    \* a new process: the locals of main are not set yet
    /\ discovery' = NoDiscovery
    /\ links' = <<>>
    /\ match_pct' = 0
    /\ run_notes' = <<>>
    /\ uni_courses_count' = 0
    /\ UNCHANGED <<xvars, mvars, my_courses, disc, match, sources>>

\* the cache read without the test of the refresh flag
CachedDiscovery_IgnoresRefresh(found) ==
    IF Exists(found) THEN _read_json(found) ELSE None

\* lines 269-271: what the discovery stage takes from its cache
CachedDiscovery(found) ==
    IF ~refresh_discovery /\ Exists(found) THEN _read_json(found) ELSE None

\* line 309, for a discovery that has .get
SelectedLinks(d) ==
    Prefix(IF "selected" \in d.keys THEN d.body.selected ELSE <<>>, LinksCap)

\* lines 269-309
DiscoveryStage ==
    /\ opc = "discovery"
    /\ disc_found' = disc[Slug]
    /\ IF CachedDiscovery(disc[Slug]).kind = "None"
       THEN \E out \in DiscoverOutcomes :
               /\ discovery' = DiscoveryArtifact(Cur, out)
               /\ disc' = [disc EXCEPT ![Slug] = DiscoveryArtifact(Cur, out)]
               /\ disc_executed' = TRUE
               /\ disc_failed' = out.raised
               /\ net_ops' = {"search"}
       ELSE /\ discovery' = CachedDiscovery(disc[Slug])
            /\ disc_executed' = FALSE
            /\ disc_failed' = FALSE
            /\ net_ops' = {}
            /\ UNCHANGED disc
    /\ IF discovery'.kind = "dict"
       THEN /\ links' = SelectedLinks(discovery')
            /\ opc' = "matching"
       ELSE \* AttributeError: the value has no .get
            /\ links' = links
            /\ opc' = "crashed"
    /\ UNCHANGED <<xvars, mvars, my_courses, args, universities, idx, match, sources,
                   match_pct, run_notes, uni_courses_count, results, run_no,
                   match_found, match_executed, match_failed, last_plain,
                   repeat_plain>>

\* a matching stage that never reads its cache
CachedMatch_NeverCached(found) == None

\* lines 318-320: what the matching stage takes from its cache
CachedMatch(found) ==
    IF ~refresh_matching /\ Exists(found) THEN _read_json(found) ELSE None

\* line 321
UsesCached(c) == Truthy(c) /\ "match_pct" \in c.keys /\ "matches" \in c.keys

\* lines 322-324 raise: .get of a list, float() of a non-number
CachedRaises(c) == UsesCached(c) /\ (c.kind # "dict" \/ ~c.body.pct_is_number)

\* what the fetches of one matching stage do: the sites answer, or they do not
FetchChoices(lnks) ==
    {[url \in {lnks[i] : i \in 1..Len(lnks)} |-> outcome] : outcome \in {"ok", "fail"}}

\* lines 374-387
MatchesArtifact(u, lnks, my, uni_n, m) ==
    File("dict", MatchKeys, MatchBody(u.name, lnks, Len(my), uni_n, m.pct, m.notes, TRUE))

\* lines 392-406
FailedMatchesArtifact(u, lnks, my) ==
    File("dict", MatchKeys \cup {"error"},
         MatchBody(u.name, lnks, Len(my), 0, 0, <<>>, TRUE))

\* lines 361-369
SourcesArtifact(u, lnks, telemetry) ==
    File("dict", SourcesKeys, SourcesBody(u.name, Prefix(lnks, ScrapeCap), telemetry))

\* lines 328-408 for one behaviour of the network (fetch), of the browser
\* (launch) and of the matcher's collaborators (env)
ComputeMatching(u, lnks, my, old_sources, fetch, launch, env) ==
    LET ex == Extract(u.name, lnks, fetch)
        launched == ~ex.browser \/ launch
        m == IF launched THEN match_percentage_with_notes(my, ex.uni_courses, env)
             ELSE [raised |-> TRUE, pct |-> 0, notes |-> <<>>]
    IN  [failed |-> m.raised,
         sources |-> IF launched THEN SourcesArtifact(u, lnks, ex.telemetry)
                     ELSE old_sources,
         match |-> IF m.raised THEN FailedMatchesArtifact(u, lnks, my)
                   ELSE MatchesArtifact(u, lnks, my, Len(ex.uni_courses), m),
         match_pct |-> m.pct,
         notes |-> m.notes,
         uni_courses_count |-> IF m.raised THEN 0 ELSE Len(ex.uni_courses),
         net_ops |-> (IF ex.browser THEN {"browser"} ELSE {})
                        \cup (IF ex.download THEN {"download"} ELSE {})]

MatchingOutcomes(u, lnks, my, old_sources) ==
    {ComputeMatching(u, lnks, my, old_sources, fetch, launch, env) :
        fetch \in FetchChoices(lnks), launch \in BOOLEAN,
        env \in [1..Len(my) -> CourseEnvs]}

\* lines 314-408
MatchingStage ==
    /\ opc = "matching"
    /\ match_found' = match[Slug]
    /\ IF CachedMatch(match[Slug]).kind = "None"
       THEN \E r \in MatchingOutcomes(Cur, links, my_courses, sources[Slug]) :
               /\ sources' = [sources EXCEPT ![Slug] = r.sources]
               /\ match' = [match EXCEPT ![Slug] = r.match]
               /\ match_pct' = r.match_pct
               /\ run_notes' = r.notes
               /\ uni_courses_count' = r.uni_courses_count
               /\ match_failed' = r.failed
               /\ net_ops' = r.net_ops
               /\ match_executed' = TRUE
               /\ opc' = "scoring"
       ELSE LET c == CachedMatch(match[Slug])
                used == UsesCached(c) /\ ~CachedRaises(c)
            IN  /\ match_executed' = FALSE
                /\ match_failed' = FALSE
                /\ match_pct' = IF used THEN c.body.match_pct ELSE 0
                /\ run_notes' = IF used THEN c.body.matches ELSE <<>>
                /\ uni_courses_count' = IF used THEN c.body.uni_courses_count ELSE 0
                /\ opc' = IF CachedRaises(c) THEN "crashed" ELSE "scoring"
                /\ net_ops' = {}
                /\ UNCHANGED <<match, sources>>
    /\ UNCHANGED <<xvars, mvars, my_courses, args, universities, idx, disc, discovery,
                   links, results, run_no, disc_found, disc_executed,
                   disc_failed, last_plain, repeat_plain>>

\* lines 410-494, and the next iteration of the loop (living cost and
\* prestige are lookups that do not touch the discovery and matches artifacts)
Scoring ==
    /\ opc = "scoring"
    /\ results' = Append(results, ResultRow(Cur.name, match_pct, Len(links),
                                            uni_courses_count))
    /\ IF idx < Len(universities)
       THEN /\ idx' = idx + 1
            /\ opc' = "discovery"
            /\ disc_found' = NoFile
            /\ match_found' = NoFile
            /\ disc_executed' = FALSE
            /\ match_executed' = FALSE
            /\ disc_failed' = FALSE
            /\ match_failed' = FALSE
            /\ net_ops' = {}
       ELSE /\ opc' = "done"
            /\ UNCHANGED <<idx, StageMarks, net_ops>>
    /\ UNCHANGED <<xvars, mvars, my_courses, args, universities, disc, match, sources,
                   discovery, links, match_pct, run_notes, uni_courses_count,
                   run_no, last_plain, repeat_plain>>

Next ==
    \/ StartRun
    \/ DiscoveryStage
    \/ MatchingStage
    \/ Scoring

Spec == Init /\ [][Next]_vars

(***************************************************************************)
(* Properties of the orchestrator (specification Spec).                    *)
(***************************************************************************)
\* the discovery stage of universities[idx] has run in this process
DiscoveryRan == opc \notin {"idle", "discovery"}

\* the matching stage of universities[idx] has run in this process
MatchingRan == opc \in {"scoring", "done"} \/ (opc = "crashed" /\ discovery.kind = "dict")

\* the file parses to a JSON value other than null
Readable(f) == f.kind \notin {"nofile", "unreadable"}

\* the file is a JSON object
IsObject(f) == f.kind = "dict"

\* the file is a JSON object with a numeric match_pct and with matches
ValidMatches(f) ==
    /\ f.kind = "dict"
    /\ {"match_pct", "matches"} \subseteq f.keys
    /\ f.body.pct_is_number

C2_SecondPlainRunIsQuiet ==
    [][(repeat_plain /\ opc \in {"discovery", "matching", "scoring"}) =>
          (disc' = disc /\ match' = match /\ net_ops' = {})]_vars

\* the second plain run has ended after a first run whose matching failed
C2_Witness ==
    /\ repeat_plain
    /\ opc = "done"
    /\ Len(results) = Len(universities)
    /\ "error" \in match[Slug].keys
    /\ disc[Slug].body.selected = <<>>

\* C3 as stated: whatever fails in the stages of one institution and whatever
\* its cache artifacts hold, the loop goes on: a run that has ended has
\* produced one result row per institution.
C3_EveryInstitutionHasARow ==
    opc \in {"done", "crashed"} => Len(results) = Len(universities)

\* C4 as stated: a stage that was executed and failed has written an
\* artifact that is empty but valid and carries an error field, and after an
\* institution is processed its discovery and matches artifacts exist.
C4_FailedStageLeavesErrorArtifact ==
    /\ (DiscoveryRan /\ disc_failed) =>
          /\ IsObject(disc[Slug])
          /\ disc[Slug].body.selected = <<>>
          /\ disc[Slug].body.candidates = <<>>
          /\ "error" \in disc[Slug].keys
    /\ (MatchingRan /\ match_failed) =>
          /\ IsObject(match[Slug])
          /\ match[Slug].body.match_pct = 0
          /\ match[Slug].body.matches = <<>>
          /\ "error" \in match[Slug].keys
    /\ opc \in {"scoring", "done"} => (Exists(disc[Slug]) /\ Exists(match[Slug]))

\* C5 as stated: a step of a run replaces an existing discovery (matches)
\* artifact only if a refresh flag of that stage is set.
C5_ExistingArtifactKeptWithoutRefresh ==
    [][\A g \in Slugs :
          /\ (Exists(disc[g]) /\ disc'[g] # disc[g]) => refresh_discovery
          /\ (Exists(match[g]) /\ match'[g] # match[g]) => refresh_matching]_vars

\* C5 amended: a step of a run replaces an existing discovery (matches)
\* artifact that parses to a JSON value other than null only if a refresh
\* flag of that stage is set; no step removes an artifact, and no step
\* depends on the age of a file.
C5_ReadableArtifactKeptWithoutRefresh ==
    [][\A g \in Slugs :
          /\ (Readable(disc[g]) /\ disc'[g] # disc[g]) => refresh_discovery
          /\ (Readable(match[g]) /\ match'[g] # match[g]) => refresh_matching
          /\ Exists(disc[g]) => Exists(disc'[g])
          /\ Exists(match[g]) => Exists(match'[g])]_vars

\* a run with --refresh-matching has kept the discovery artifact it found and
\* has replaced the matches artifact it found
C5_Witness ==
    /\ opc = "done"
    /\ ~refresh_discovery /\ refresh_matching
    /\ Readable(disc_found) /\ disc[Slug] = disc_found
    /\ Readable(match_found) /\ match[Slug] # match_found

(***************************************************************************)
(* Matcher specification: Init draws a call's inputs, the actions run it.  *)
(***************************************************************************)
MInit ==
    /\ OrchestratorIdle
    /\ OthersIdle
    /\ mpc = "call"
    /\ my_courses \in {Prefix(MyPool, n) : n \in 0..MaxMy}
    /\ uni_courses \in {Prefix(UniPool, n) :
                            n \in {k \in 0..MaxUni :
                                      Len(my_courses) * k <= MaxRatioCalls}}
    /\ \E p \in ParamChoices :
          /\ fuzzy_threshold = p.fuzzy_threshold
          /\ llm_band = p.llm_band
          /\ llm_conf_threshold = p.llm_conf_threshold
    /\ groq \in BOOLEAN
    /\ hits = 0
    /\ notes = <<>>
    /\ pct = -1
    /\ scores = <<>>
    /\ llm_out = NoCall
    /\ ratio_calls = 0
    /\ llm_calls = 0

\* mutant: the early return for an empty candidate list is missing
MatchEnter_NoEmptyCandidatesReturn ==
    /\ mpc = "call"
    /\ IF my_courses = <<>>
       THEN /\ mpc' = "returned"
            /\ pct' = 0
            /\ notes' = <<>>
       ELSE /\ mpc' = "loop"
            /\ UNCHANGED <<pct, notes>>
    /\ UNCHANGED <<my_courses, uni_courses, fuzzy_threshold, llm_band,
                   llm_conf_threshold, groq, hits, scores, llm_out,
                   ratio_calls, llm_calls, ovars, xvars>>

\* lines 80-86: the two early returns, else the loop starts
MatchEnter ==
    /\ mpc = "call"
    /\ IF my_courses = <<>>
       THEN /\ mpc' = "returned"
            /\ pct' = 0
            /\ notes' = <<>>
       ELSE IF uni_courses = <<>>
       THEN /\ mpc' = "returned"
            /\ pct' = 0
            /\ notes' = NoUniNotes(my_courses)
       ELSE /\ mpc' = "loop"
            /\ UNCHANGED <<pct, notes>>
    /\ UNCHANGED <<my_courses, uni_courses, fuzzy_threshold, llm_band,
                   llm_conf_threshold, groq, hits, scores, llm_out,
                   ratio_calls, llm_calls, ovars, xvars>>

\* lines 88-144: one iteration of "for mc in my_courses"
MatchCourse ==
    /\ mpc = "loop"
    /\ Len(notes) < Len(my_courses)
    /\ \E row \in [1..Len(uni_courses) -> ScoreVals] :
       \E resp \in IF Consults(uni_courses, row, fuzzy_threshold, llm_band, groq)
                   THEN LlmResponses ELSE {NoCall} :
       LET step == CourseStep(my_courses[Len(notes) + 1], uni_courses, row, resp,
                              fuzzy_threshold, llm_band, llm_conf_threshold, groq)
       IN  /\ scores' = row
           /\ ratio_calls' = ratio_calls + Len(row)
           /\ llm_out' = IF step.called THEN resp ELSE NoCall
           /\ llm_calls' = IF step.called THEN llm_calls + 1 ELSE llm_calls
           /\ IF step.raised
              THEN /\ mpc' = "raised"
                   /\ UNCHANGED <<hits, notes>>
              ELSE /\ hits' = IF step.hit THEN hits + 1 ELSE hits
                   /\ notes' = Append(notes, step.note)
                   /\ UNCHANGED mpc
    /\ UNCHANGED <<my_courses, uni_courses, fuzzy_threshold, llm_band,
                   llm_conf_threshold, groq, pct, ovars, xvars>>

\* lines 146-147
MatchReturn ==
    /\ mpc = "loop"
    /\ Len(notes) = Len(my_courses)
    /\ pct' = Percentage(hits, Len(my_courses))
    /\ mpc' = "returned"
    /\ UNCHANGED <<my_courses, uni_courses, fuzzy_threshold, llm_band,
                   llm_conf_threshold, groq, hits, notes, scores, llm_out,
                   ratio_calls, llm_calls, ovars, xvars>>

MNext == MatchEnter \/ MatchCourse \/ MatchReturn

MatcherSpec == MInit /\ [][MNext]_vars

(***************************************************************************)
(* Properties of match_percentage_with_notes, checked under MatcherSpec.   *)
(***************************************************************************)
RECURSIVE SeqMax(_)
SeqMax(s) == IF Len(s) = 1 THEN s[1] ELSE Max2(s[1], SeqMax(Tail(s)))

LastNote == notes[Len(notes)]

\* the notes that count as a match
MatchedNotes == {i \in 1..Len(notes) : notes[i].method \in {"fuzzy", "llm"}}

\* the last inner loop compared the course of the last note
LastCourseNoted ==
    /\ mpc # "raised"
    /\ notes # <<>>
    /\ LastNote.my_course = my_courses[Len(notes)]

InBand(x) == llm_band[1] <= x /\ x <= llm_band[2]

\* C6: with a non-empty my_courses and an empty candidate list the call returns
\* percentage 0 and one note per user course, each with method "none", no best
\* match and the reason "No uni courses"; it compares nothing and asks the
\* classifier nothing.
C6_EmptyCandidates ==
    (my_courses # <<>> /\ uni_courses = <<>>) =>
        /\ ratio_calls = 0
        /\ llm_calls = 0
        /\ mpc \in {"call", "returned"}
        /\ mpc = "returned" =>
              /\ pct = 0
              /\ Len(notes) = Len(my_courses)
              /\ \A i \in 1..Len(notes) :
                    /\ notes[i].my_course = my_courses[i]
                    /\ notes[i].method = "none"
                    /\ notes[i].best_match = "None"
                    /\ notes[i].llm_conf = 0
                    /\ notes[i].reason.text = "No uni courses"

C6_Witness ==
    /\ mpc = "returned"
    /\ Len(my_courses) = 2
    /\ uni_courses = <<>>
    /\ Len(notes) = 2

\* C7: a user course whose best score reaches fuzzy_threshold gets a "fuzzy"
\* note and is counted in hits, with no classifier call for it, whatever
\* groq_available() answers and whatever the threshold and the band are.
C7_ThresholdAlwaysFuzzy ==
    /\ (scores # <<>> /\ SeqMax(scores) >= fuzzy_threshold) =>
          /\ LastCourseNoted
          /\ LastNote.method = "fuzzy"
          /\ LastNote.score = SeqMax(scores) \div 10
          /\ llm_out = NoCall
    /\ \A i \in 1..Len(notes) :
          (uni_courses # <<>> /\ 10 * notes[i].score >= fuzzy_threshold) =>
              notes[i].method = "fuzzy"
    /\ hits = Cardinality(MatchedNotes)

C7_Witness ==
    /\ mpc = "returned"
    /\ groq
    /\ fuzzy_threshold = 740
    /\ scores # <<>>
    /\ SeqMax(scores) = 740
    /\ InBand(SeqMax(scores))
    /\ LastNote.method = "fuzzy"
    /\ Len(notes) = 2

\* C8 as stated: a course whose best score lies inside the escalation band
\* while the classifier is unavailable gets a "none" note with the reason
\* "Below threshold" and confidence 0, is not counted, and the classifier is
\* not called - for whatever threshold and band are passed in.
C8_BandUnavailableIsNone ==
    (scores # <<>> /\ InBand(SeqMax(scores)) /\ ~groq) =>
        /\ LastCourseNoted
        /\ LastNote.method = "none"
        /\ LastNote.reason.text = "Below threshold"
        /\ LastNote.llm_conf = 0
        /\ Len(notes) \notin MatchedNotes
        /\ llm_calls = 0

\* C8 amended: the same for a course whose best score is below
\* fuzzy_threshold and inside the escalation band.
C8_BandBelowThresholdUnavailableIsNone ==
    (scores # <<>> /\ InBand(SeqMax(scores)) /\ SeqMax(scores) < fuzzy_threshold
        /\ ~groq) =>
        /\ LastCourseNoted
        /\ LastNote.method = "none"
        /\ LastNote.reason.text = "Below threshold"
        /\ LastNote.llm_conf = 0
        /\ Len(notes) \notin MatchedNotes
        /\ hits = Cardinality(MatchedNotes)
        /\ llm_calls = 0
        /\ llm_out = NoCall

C8_Witness ==
    /\ mpc = "returned"
    /\ ~groq
    /\ scores # <<>>
    /\ InBand(SeqMax(scores))
    /\ SeqMax(scores) < fuzzy_threshold
    /\ LastNote.reason.text = "Below threshold"
    /\ Len(notes) = 2

\* C9: when the classifier is consulted for a course, the course is counted
\* with method "llm" iff the verdict is equivalent and the confidence reaches
\* llm_conf_threshold; in every other case the course is recorded with method
\* "none", is not counted, and its note carries the classifier's confidence
\* and reason.
C9_ClassifierGate ==
    (llm_out # NoCall) =>
        /\ LastCourseNoted
        /\ (LastNote.method = "llm") <=>
              (/\ llm_out.kind = "json"
               /\ llm_out.equivalent
               /\ llm_out.confidence >= llm_conf_threshold)
        /\ LastNote.method \in {"llm", "none"}
        /\ (Len(notes) \in MatchedNotes) <=> (LastNote.method = "llm")
        /\ llm_out.kind = "json" =>
              LastNote.llm_conf = Max2(0, Min2(100, llm_out.confidence))
        /\ (llm_out.kind = "json" /\ llm_out.reason # "" /\ LastNote.method = "none") =>
              LastNote.reason.detail = llm_out.reason

\* C10: when the classifier is consulted and its answer does not parse, or the
\* call itself raises, the pair is a non-match with confidence 0 and a
\* diagnostic reason, and match_percentage_with_notes does not raise.
C10_ClassifierFailureIsNonMatch ==
    (llm_out.kind \in {"raise", "garbage"}) =>
        /\ LastCourseNoted
        /\ LastNote.method = "none"
        /\ LastNote.llm_conf = 0
        /\ LastNote.reason.detail = "LLM parse error"

\* C11 as stated: the returned percentage equals 100 x (notes with method
\* "fuzzy" or "llm") / (user courses), is 0 without user courses, and lies
\* between 0 and 100.
C11_PercentageIsExactRatio ==
    mpc = "returned" =>
        /\ pct * Max2(1, Len(my_courses)) = 10000 * Cardinality(MatchedNotes)
        /\ my_courses = <<>> => pct = 0
        /\ 0 <= pct /\ pct <= 10000

\* C11 amended: the returned percentage is that ratio rounded to 2 decimals
\* (it differs from the ratio by at most half a hundredth), is 0 without user
\* courses, and lies between 0 and 100.
C11_PercentageIsRoundedRatio ==
    mpc = "returned" =>
        /\ 2 * pct * Max2(1, Len(my_courses))
              <= 2 * 10000 * Cardinality(MatchedNotes) + Max2(1, Len(my_courses))
        /\ 2 * pct * Max2(1, Len(my_courses))
              >= 2 * 10000 * Cardinality(MatchedNotes) - Max2(1, Len(my_courses))
        /\ Len(notes) = Len(my_courses)
        /\ my_courses = <<>> => pct = 0
        /\ 0 <= pct /\ pct <= 10000

\* two of three courses matched, one by similarity and one by the classifier
C11_Witness ==
    /\ mpc = "returned"
    /\ Len(my_courses) = 3
    /\ Cardinality(MatchedNotes) = 2
    /\ \E i \in MatchedNotes : notes[i].method = "llm"
    /\ pct = 6667

\* C12: the call returns one note per user course, the i-th note being that
\* of the i-th course of my_courses, for every candidate list, thresholds and
\* classifier availability; an empty my_courses returns no note.
C12_OneNotePerCourseInOrder ==
    /\ Len(notes) <= Len(my_courses)
    /\ \A i \in 1..Len(notes) : notes[i].my_course = my_courses[i]
    /\ mpc = "returned" => Len(notes) = Len(my_courses)

\* three courses went through the loop, the classifier being available
C12_Witness ==
    /\ mpc = "returned"
    /\ groq
    /\ uni_courses # <<>>
    /\ Len(notes) = 3
    /\ notes[1].method = "none" /\ notes[2].method = "llm" /\ notes[3].method = "fuzzy"

\* C20 as stated: two distinct institutions of a mission have different
\* slugs, and after a run that refreshed every stage the matches artifact of
\* each institution of the mission is the one written for it.
C20_DistinctInstitutionsDistinctArtifacts ==
    /\ \A i, j \in 1..Len(universities) :
          universities[i].name # universities[j].name
              => slugify(universities[i].name) # slugify(universities[j].name)
    /\ (opc = "done" /\ args.refresh) =>
          \A i \in 1..Len(universities) :
              LET f == match[slugify(universities[i].name)]
              IN  IsObject(f) /\ f.body.university = universities[i].name

(***************************************************************************)
(* agents/web_researcher.py: discover_program_pages.  Init draws the       *)
(* arguments and the environment, the actions run one call.                *)
(***************************************************************************)
MaxPages == 3
MaxFound == 3

OtherUrl == <<"http://www.unileon.es/", "grado">>

\* an href of the search page that is relative
RelativeHref == <<"/l/", "?", "uddg=1">>

\* href.startswith("http")
StartsWithHttp(href) ==
    href # <<>> /\ href[1] \in {"https://www.upm.es/", "http://www.unileon.es/"}

\* an entry of data["organic"]: a dict with its "link" (<<>>: no link), or a
\* value without .get
Organic(kind, link) == [kind |-> kind, link |-> link]

OrganicPool ==
    {Organic("dict", HtmlUrl), Organic("dict", PdfUrl), Organic("dict", RelativeHref),
     Organic("other", <<>>)}

SeqsUpTo(S, n) == UNION {[1..k -> S] : k \in 0..n}

\* what _serper_search can do: raise, or return data with its organic list
SerperResponses ==
    {[raised |-> TRUE, organic |-> <<>>]}
        \cup {[raised |-> FALSE, organic |-> o] : o \in SeqsUpTo(OrganicPool, MaxFound)}

\* what the search page can do: the browser raises, or the page has anchors
\* "a.result__a" with these hrefs
SearchPages ==
    {[raised |-> TRUE, organic |-> <<>>]}
        \cup {[raised |-> FALSE, organic |-> o] :
                 o \in SeqsUpTo({Organic("dict", HtmlUrl), Organic("dict", OtherUrl),
                                 Organic("dict", RelativeHref)}, MaxFound)}

\* the loops of lines 377-382 and 425-430 from item i on: append the hrefs
\* that start with "http", stop when max_pages links are held; item.get of a
\* value that is no dict raises
RECURSIVE Collect(_, _, _, _)
Collect(items, i, acc, cap) ==
    IF i > Len(items) THEN [raised |-> FALSE, links |-> acc]
    ELSE IF items[i].kind # "dict" THEN [raised |-> TRUE, links |-> acc]
    ELSE LET held == IF StartsWithHttp(items[i].link)
                     THEN Append(acc, items[i].link) ELSE acc
         IN  IF Len(held) >= cap THEN [raised |-> FALSE, links |-> held]
             ELSE Collect(items, i + 1, held, cap)

\* a return that slices without removing repeated links
Uniq_NoDedupe(lnks, cap) == Prefix(lnks, cap)

\* lines 392-400 and 434-442
Uniq(lnks, cap) == Prefix(DedupeExact(lnks), cap)

DInit ==
    /\ MatcherIdle
    /\ my_courses = <<>>
    /\ OrchestratorIdle
    /\ RestIdle
    /\ ExtractIdle
    /\ ScrapeIdle
    /\ TextIdle
    /\ RankIdle
    /\ dpc = "call"
    /\ max_pages_in \in -1..MaxPages
    /\ max_pages = 0
    /\ serper_available \in BOOLEAN
    /\ d_links = <<>>
    /\ d_result = <<>>
    /\ serper_calls = 0
    /\ fallback_calls = 0
    /\ serper_ok = FALSE

\* lines 366-372
DiscoverEnter ==
    /\ dpc = "call"
    /\ max_pages' = Max2(1, max_pages_in)
    /\ dpc' = IF serper_available THEN "serper" ELSE "fallback"
    /\ UNCHANGED <<mvars, my_courses, ovars, evars, svars, tvars, kvars, fvars, max_pages_in, serper_available,
                   d_links, d_result, serper_calls, fallback_calls, serper_ok>>

\* a primary provider whose failure is not caught
DiscoverSerper_Uncaught ==
    /\ dpc = "serper"
    /\ serper_calls' = serper_calls + 1
    /\ \E resp \in SerperResponses :
          LET c == Collect(resp.organic, 1, d_links, max_pages)
          IN  IF resp.raised \/ c.raised
              THEN /\ dpc' = "raised"
                   /\ d_links' = c.links
                   /\ UNCHANGED <<d_result, serper_ok>>
              ELSE /\ dpc' = "returned"
                   /\ d_links' = c.links
                   /\ d_result' = Uniq(c.links, max_pages)
                   /\ serper_ok' = TRUE
    /\ UNCHANGED <<mvars, my_courses, ovars, evars, svars, tvars, kvars, fvars, max_pages_in, max_pages,
                   serper_available, fallback_calls>>

\* lines 373-403: the primary provider
DiscoverSerper ==
    /\ dpc = "serper"
    /\ serper_calls' = serper_calls + 1
    /\ \E resp \in SerperResponses :
          LET c == Collect(resp.organic, 1, d_links, max_pages)
          IN  IF resp.raised \/ c.raised
              THEN /\ dpc' = "fallback"
                   /\ d_links' = c.links
                   /\ UNCHANGED <<d_result, serper_ok>>
              ELSE /\ dpc' = "returned"
                   /\ d_links' = c.links
                   /\ d_result' = Uniq(c.links, max_pages)
                   /\ serper_ok' = TRUE
    /\ UNCHANGED <<mvars, my_courses, ovars, evars, svars, tvars, kvars, fvars, max_pages_in, max_pages,
                   serper_available, fallback_calls>>

\* lines 408-442: the scrape of the search page
DiscoverFallback ==
    /\ dpc = "fallback"
    /\ fallback_calls' = fallback_calls + 1
    /\ \E page \in SearchPages :
          LET c == Collect(page.organic, 1, d_links, max_pages)
          IN  IF page.raised
              THEN /\ dpc' = "raised"
                   /\ UNCHANGED <<d_links, d_result>>
              ELSE /\ dpc' = "returned"
                   /\ d_links' = c.links
                   /\ d_result' = Uniq(c.links, max_pages)
    /\ UNCHANGED <<mvars, my_courses, ovars, evars, svars, tvars, kvars, fvars, max_pages_in, max_pages,
                   serper_available, serper_calls, serper_ok>>

DNext == DiscoverEnter \/ DiscoverSerper \/ DiscoverFallback

DiscoverSpec == DInit /\ [][DNext]_vars

NoDuplicates(xs) == \A i, j \in 1..Len(xs) : xs[i] = xs[j] => i = j

\* C13 as stated: whichever search path is taken, the returned list has at
\* most max_results entries and holds no URL twice.
C13_AtMostMaxResultsNoDuplicates ==
    dpc = "returned" =>
        /\ Len(d_result) <= max_pages_in
        /\ NoDuplicates(d_result)

\* C13 amended: the returned list has at most max(1, max_results) entries and
\* holds no URL twice.
C13_AtMostClampedMaxNoDuplicates ==
    dpc = "returned" =>
        /\ Len(d_result) <= Max2(1, max_pages_in)
        /\ NoDuplicates(d_result)
        /\ \A i \in 1..Len(d_result) : StartsWithHttp(d_result[i])

\* the fallback has returned a full list although the links it collected
\* on the way held a URL twice
C13_Witness ==
    /\ dpc = "returned"
    /\ fallback_calls = 1
    /\ max_pages_in = 3
    /\ Len(d_result) = 2
    /\ ~NoDuplicates(d_links)

\* C14: when the primary provider is unavailable, or its request or the
\* handling of its result fails, the call does not raise for that reason and
\* the search-page scrape is started exactly once; when the primary provider
\* succeeds the scrape is not started.
C14_FallbackExactlyOnce ==
    /\ serper_calls <= 1 /\ fallback_calls <= 1
    /\ ~serper_available => serper_calls = 0
    /\ dpc = "raised" => fallback_calls = 1
    /\ (dpc \in {"returned", "raised"} /\ ~serper_ok) => fallback_calls = 1
    /\ serper_ok => (fallback_calls = 0 /\ dpc = "returned" /\ serper_calls = 1)
    /\ (dpc = "fallback" /\ serper_available) => (serper_calls = 1 /\ ~serper_ok)

\* the handling of the primary provider's result failed after a link was
\* collected, and the scrape that followed has returned
C14_Witness ==
    /\ dpc = "returned"
    /\ serper_available
    /\ serper_calls = 1
    /\ ~serper_ok
    /\ fallback_calls = 1
    /\ d_result # <<>>

(***************************************************************************)
(* run.py lines 328-408 on their own: the extraction and the matching of   *)
(* one institution, for every behaviour of each link's fetch.              *)
(***************************************************************************)
ExtractLinks ==
    {<<>>, <<PdfUrl>>, <<HtmlUrl>>, <<PdfUrl, HtmlUrl>>, <<HtmlUrl, PdfUrlQuery>>}

Range(xs) == {xs[i] : i \in 1..Len(xs)}

\* what the fetch of each link does, link by link
PerUrlFetch(lnks) ==
    {f \in [Range(lnks) -> {"ok", "fail", "fallback_ok"}] :
        \A u \in Range(lnks) : f[u] \in FetchOutcomes(u)}

EInit ==
    /\ MatcherIdle
    /\ my_courses = Prefix(MyPool, 1)
    /\ OrchestratorIdle
    /\ RestIdle
    /\ DiscoverIdle
    /\ ScrapeIdle
    /\ TextIdle
    /\ RankIdle
    /\ epc = "call"
    /\ e_uni \in Range(TargetPool)
    /\ e_links \in ExtractLinks
    /\ e_fetch \in PerUrlFetch(e_links)
    /\ e_launch \in BOOLEAN
    /\ e_env \in [1..Len(my_courses) -> CourseEnvs]
    /\ e_out = NoOutcome

\* lines 328-408
MatchingCompute ==
    /\ epc = "call"
    /\ epc' = "done"
    /\ e_out' = ComputeMatching(e_uni, e_links, my_courses, NoFile, e_fetch,
                                e_launch, e_env)
    /\ UNCHANGED <<mvars, my_courses, ovars, dvars, svars, tvars, kvars, fvars, e_uni, e_links, e_fetch,
                   e_launch, e_env>>

ENext == MatchingCompute

ExtractSpec == EInit /\ [][ENext]_vars

\* the fetch of link i is the fetch of a PDF that timed out
PdfTimedOut(i) ==
    /\ _is_pdf(e_links[i])
    /\ e_fetch[e_links[i]] = "fail"
    /\ IsPdfFirst(e_uni.name) \/ e_launch

\* the sources artifact has an entry for the URL with a non-empty error and
\* no extracted line
ErrorEntry(url) ==
    /\ e_out.sources.kind = "dict"
    /\ \E k \in 1..Len(e_out.sources.body.telemetry) :
          LET t == e_out.sources.body.telemetry[k]
          IN  /\ t.url = url
              /\ "error" \in t.fields
              /\ t.error # ""
              /\ t.extracted_lines = 0

\* the matches artifact is valid and has no candidate and percentage 0
ZeroCandidateArtifact ==
    /\ ValidMatches(e_out.match)
    /\ e_out.match.body.uni_courses_count = 0
    /\ e_out.match.body.match_pct = 0
    /\ e_out.uni_courses_count = 0
    /\ e_out.match_pct = 0

\* C15: for every institution, a PDF link whose fetch times out has a
\* telemetry entry with a non-empty error and no extracted line whenever the
\* browser starts, and when no link yields anything the matches artifact is
\* valid with zero candidates and percentage 0.
C15_TimedOutPdfIsRecorded ==
    epc = "done" =>
        /\ \A i \in 1..Len(e_links) :
              (PdfTimedOut(i) /\ e_launch) => ErrorEntry(e_links[i])
        /\ ((\E i \in 1..Len(e_links) : PdfTimedOut(i))
              /\ \A i \in 1..Len(e_links) : e_fetch[e_links[i]] = "fail")
                 => ZeroCandidateArtifact

(***************************************************************************)
(* agents/web_researcher.py: scrape_courses_from_urls, one action for each *)
(* iteration of its loop.                                                  *)
(***************************************************************************)
MaxUrls == 3

UrlPool == {HtmlUrl, PdfUrlQuery}

\* what the environment does during one iteration: the HTML cache holds the
\* page or not, the HTML path works or fails at a step, the PDF path works or
\* fails
UrlOutcomes(href) ==
    IF _is_pdf(href)
    THEN {[cached |-> FALSE, html |-> "unused", pdf |-> r] : r \in {"ok", "fail"}}
    ELSE {o \in [cached : BOOLEAN,
                  html : {"ok", "cache", "goto", "content", "extract"},
                  pdf : {"ok", "fail"}] :
             /\ o.cached => o.html \in {"ok", "cache", "extract"}
             /\ ~o.cached => o.html # "cache"}

\* line 236
Targets(urls, max_urls) == Prefix(urls, max_urls)

\* a fallback that is attempted for every URL
NeedsFallback_Always(href) == TRUE

\* line 281
NeedsFallback(href) == ~_is_pdf(href)

Trace(goto, direct, fallback, html_failed, lines) ==
    [goto |-> goto, direct |-> direct, fallback |-> fallback,
     html_failed |-> html_failed, lines |-> lines]

\* lines 277-292: the handler of a failed first attempt
OnException(href, kind, goto, direct, html_failed, o) ==
    IF NeedsFallback(href)
    THEN IF o.pdf = "ok"
         THEN [item |-> Telemetry(href, "pdf_fallback", Len(PageLines(href)), ""),
               trace |-> Trace(goto, direct, 1, html_failed, PageLines(href))]
         ELSE [item |-> Telemetry(href, kind, 0, "e | PDF fallback failed: e2"),
               trace |-> Trace(goto, direct, 1, html_failed, <<>>)]
    ELSE [item |-> Telemetry(href, kind, 0, "e"),
          trace |-> Trace(goto, direct, 0, html_failed, <<>>)]

\* lines 243-292: one iteration of the loop
ScrapeStep(href, o) ==
    IF _is_pdf(href)
    THEN IF o.pdf = "ok"
         THEN [item |-> Telemetry(href, "pdf", Len(PageLines(href)), ""),
               trace |-> Trace(0, 1, 0, FALSE, PageLines(href))]
         ELSE OnException(href, "pdf", 0, 1, FALSE, o)
    ELSE LET goto == IF o.cached THEN 0 ELSE 1
         IN  IF o.html = "ok"
             THEN [item |-> Telemetry(href, "html", Len(PageLines(href)), ""),
                   trace |-> Trace(goto, 0, 0, FALSE, PageLines(href))]
             ELSE OnException(href, "html", goto, 0, TRUE, o)

\* a failure of both attempts that leaves the function
Uncaught_BothFailed(step) == step.item.error # "" /\ step.trace.fallback = 1

\* lines 277 and 290: "except Exception" lets no failure of an iteration out
Uncaught(step) == FALSE

SInit ==
    /\ MatcherIdle
    /\ my_courses = <<>>
    /\ OrchestratorIdle
    /\ RestIdle
    /\ DiscoverIdle
    /\ ExtractIdle
    /\ TextIdle
    /\ RankIdle
    /\ spc = "call"
    /\ s_urls \in SeqsUpTo(UrlPool, MaxUrls)
    /\ s_max_urls \in 0..MaxUrls
    /\ s_i = 0
    /\ s_courses = <<>>
    /\ s_telemetry = <<>>
    /\ s_trace = <<>>
    /\ s_result = <<>>

\* lines 233-240: the browser is launched, or the launch raises
ScrapeEnter ==
    /\ spc = "call"
    /\ spc' \in {"loop", "raised"}
    /\ UNCHANGED <<mvars, my_courses, ovars, dvars, evars, tvars, kvars, fvars, s_urls,
                   s_max_urls,
                   s_i, s_courses, s_telemetry, s_trace, s_result>>

\* lines 242-294: one iteration
ScrapeUrl ==
    /\ spc = "loop"
    /\ s_i < Len(Targets(s_urls, s_max_urls))
    /\ LET href == Targets(s_urls, s_max_urls)[s_i + 1]
       IN  \E o \in UrlOutcomes(href) :
              LET step == ScrapeStep(href, o)
              IN  IF Uncaught(step)
                  THEN /\ spc' = "raised"
                       /\ UNCHANGED <<s_i, s_courses, s_telemetry, s_trace>>
                  ELSE /\ spc' = "loop"
                       /\ s_i' = s_i + 1
                       /\ s_courses' = s_courses \o step.trace.lines
                       /\ s_telemetry' = Append(s_telemetry, step.item)
                       /\ s_trace' = Append(s_trace, step.trace)
    /\ UNCHANGED <<mvars, my_courses, ovars, dvars, evars, tvars, kvars, fvars, s_urls,
                   s_max_urls,
                   s_result>>

\* lines 296-301
ScrapeReturn ==
    /\ spc = "loop"
    /\ s_i = Len(Targets(s_urls, s_max_urls))
    /\ spc' = "returned"
    /\ s_result' = FinalDedupe(s_courses)
    /\ UNCHANGED <<mvars, my_courses, ovars, dvars, evars, tvars, kvars, fvars, s_urls,
                   s_max_urls,
                   s_i, s_courses, s_telemetry, s_trace>>

SNext == ScrapeEnter \/ ScrapeUrl \/ ScrapeReturn

ScrapeSpec == SInit /\ [][SNext]_vars

\* C16: every finished URL that is no PDF has had the PDF path attempted
\* exactly once if its HTML path failed and not at all otherwise; every
\* finished PDF URL has had no page navigation and no fallback attempt, only
\* its one direct download.
C16_OneFallbackAfterHtmlFailure ==
    /\ Len(s_trace) = s_i
    /\ \A k \in 1..Len(s_trace) :
          LET t == s_trace[k]
              href == s_urls[k]
          IN  IF _is_pdf(href)
              THEN /\ t.goto = 0 /\ t.fallback = 0 /\ t.direct = 1
                   /\ s_telemetry[k].kind = "pdf"
              ELSE /\ t.direct = 0
                   /\ t.fallback = (IF t.html_failed THEN 1 ELSE 0)
                   /\ t.goto <= 1
                   /\ (s_telemetry[k].kind = "pdf_fallback") =
                         (t.html_failed /\ s_telemetry[k].error = "")
                   /\ (s_telemetry[k].error # "") => (t.html_failed /\ t.fallback = 1)

\* a page whose HTML path failed was given up after its one fallback attempt,
\* and a PDF whose download failed was given up without one
C16_Witness ==
    /\ spc = "returned"
    /\ \E k \in 1..Len(s_trace) :
          /\ ~_is_pdf(s_urls[k])
          /\ s_trace[k].html_failed /\ s_trace[k].fallback = 1
          /\ s_telemetry[k].error # ""
    /\ \E k \in 1..Len(s_trace) :
          /\ _is_pdf(s_urls[k])
          /\ s_telemetry[k].error # "" /\ s_trace[k].fallback = 0

\* C17: the telemetry has one entry for each finished target, in the order
\* of the first max_urls URLs; no iteration makes the function raise; at the
\* return every one of the first max_urls URLs has its entry and the lines of
\* every URL that worked are in the collected courses.
C17_OneEntryPerUrlNoPropagation ==
    /\ Len(s_telemetry) = s_i
    /\ s_i <= Len(Prefix(s_urls, s_max_urls))
    /\ \A k \in 1..Len(s_telemetry) : s_telemetry[k].url = s_urls[k]
    /\ spc = "raised" => s_i = 0
    /\ s_courses = Flatten([k \in 1..Len(s_telemetry) |->
                               IF s_telemetry[k].error = ""
                               THEN PageLines(s_urls[k]) ELSE <<>>])
    /\ \A k \in 1..Len(s_telemetry) :
          s_telemetry[k].extracted_lines =
              (IF s_telemetry[k].error = "" THEN Len(PageLines(s_urls[k])) ELSE 0)
    /\ spc = "returned" =>
          /\ Len(s_telemetry) = Len(Prefix(s_urls, s_max_urls))
          /\ s_result = FinalDedupe(s_courses)

\* the first URL failed on both paths, the second was still scraped, and the
\* third was beyond max_urls
C17_Witness ==
    /\ spc = "returned"
    /\ Len(s_urls) = 3 /\ s_max_urls = 2
    /\ Len(s_telemetry) = 2
    /\ s_telemetry[1].error # ""
    /\ s_telemetry[2].error = ""
    /\ s_result = PageLines(s_urls[2])

(***************************************************************************)
(* agents/web_researcher.py: the text extractor.  A text is a sequence of  *)
(* tokens: words, the punctuation ":", the whitespace characters " " and   *)
(* "\t", and the line separator "\n".                                      *)
(***************************************************************************)
MaxLines == 3

\* the numbers that number the lines of a long text
NumberTokens == {ToString(i) : i \in 1..(CourseCap + 1)}

\* \d+
IsDigits(t) == t \in {"6", "2024"} \cup NumberTokens

\* \s
IsSpace(t) == t \in {" ", "\t", "\n"}

\* the token has a character of [a-zA-Z]
HasLetter(t) == ~IsSpace(t) /\ ~IsDigits(t) /\ t # ":"

\* \w+
IsWordToken(t) == HasLetter(t) \/ IsDigits(t)

\* len() of a token
TokLen(t) ==
    CASE t \in {" ", "\t", "\n", ":", "I", "i", "6"} -> 1
      [] t \in {"ECTS", "ects", "2024"} -> 4
      [] t \in {"Redes", "REDES", "redes", "aviso", "legal"} -> 5
      [] t \in {"Lineal", "LINEAL", "lineal"} -> 6
      [] t \in {"Algebra", "ALGEBRA", "algebra", "cookies", "Materia", "materia"} -> 7
      [] t \in {"Facultad", "facultad"} -> 8
      [] t \in {"AlgebraLineal", "algebralineal"} -> 13
      [] t = "Interdisciplinariedades tecnologicas contemporaneas y fundamentos epistemologicos avanzados" -> 91
      [] OTHER -> LET i == CHOOSE k \in 1..(CourseCap + 1) : ToString(k) = t
                  IN  IF i < 10 THEN 1 ELSE IF i < 100 THEN 2 ELSE 3

RECURSIVE StrLen(_)
StrLen(ln) == IF ln = <<>> THEN 0 ELSE TokLen(ln[1]) + StrLen(Tail(ln))

\* str.lower() of a token
TokLower(t) ==
    CASE t \in {"Algebra", "ALGEBRA"} -> "algebra"
      [] t \in {"Lineal", "LINEAL"} -> "lineal"
      [] t \in {"Redes", "REDES"} -> "redes"
      [] t = "Materia" -> "materia"
      [] t = "ECTS" -> "ects"
      [] t = "Facultad" -> "facultad"
      [] t = "AlgebraLineal" -> "algebralineal"
      [] t = "I" -> "i"
      [] t = "Interdisciplinariedades tecnologicas contemporaneas y fundamentos epistemologicos avanzados" ->
             "interdisciplinariedades tecnologicas contemporaneas y fundamentos epistemologicos avanzados"
      [] OTHER -> t

StrLower(ln) == [i \in 1..Len(ln) |-> TokLower(ln[i])]

\* re.sub(r"\s+", " ", s)
RECURSIVE SubSpaceRuns(_, _, _)
SubSpaceRuns(s, i, inRun) ==
    IF i > Len(s) THEN <<>>
    ELSE IF ~IsSpace(s[i]) THEN <<s[i]>> \o SubSpaceRuns(s, i + 1, FALSE)
    ELSE IF inRun THEN SubSpaceRuns(s, i + 1, TRUE)
    ELSE <<" ">> \o SubSpaceRuns(s, i + 1, TRUE)

\* re.sub(r"\s\s", " ", s): one pass that halves the runs
RECURSIVE SubSpacePairs(_, _)
SubSpacePairs(s, i) ==
    IF i > Len(s) THEN <<>>
    ELSE IF i < Len(s) /\ IsSpace(s[i]) /\ IsSpace(s[i + 1])
         THEN <<" ">> \o SubSpacePairs(s, i + 2)
    ELSE <<s[i]>> \o SubSpacePairs(s, i + 1)

\* a cleaner that collapses whitespace in one pass over pairs
_clean_text_PairsOnce(s) == Strip(SubSpacePairs(s, 1), {" ", "\t", "\n"})

\* lines 22-23
_clean_text(s) == Strip(SubSpaceRuns(s, 1, FALSE), {" ", "\t", "\n"})

\* text.split("\n"); a long text is split at the separator nearest to its
\* middle and each part is split in the same way
RECURSIVE SplitLines(_)
SplitLines(text) ==
    LET seps == {i \in 1..Len(text) : text[i] = "\n"}
        Dist(i) == IF 2 * i > Len(text) THEN 2 * i - Len(text) ELSE Len(text) - 2 * i
    IN  IF seps = {} THEN <<text>>
        ELSE LET k == CHOOSE i \in seps : \A j \in seps : Dist(i) <= Dist(j)
             IN  SplitLines(SubSeq(text, 1, k - 1))
                     \o SplitLines(SubSeq(text, k + 1, Len(text)))

\* "\n".join(lines), by halves
RECURSIVE JoinLines(_)
JoinLines(lines) ==
    IF lines = <<>> THEN <<>>
    ELSE IF Len(lines) = 1 THEN lines[1]
    ELSE LET h == Len(lines) \div 2
         IN  JoinLines(SubSeq(lines, 1, h)) \o <<"\n">>
                 \o JoinLines(SubSeq(lines, h + 1, Len(lines)))

\* len(ln.split())
WordCount(ln) ==
    Cardinality({i \in 1..Len(ln) :
                    ~IsSpace(ln[i]) /\ (i = 1 \/ IsSpace(ln[i - 1]))})

\* lines 72-82, for the words of the model
bad_contains == {<<"cookies">>, <<"aviso", " ", "legal">>}

\* lines 84-87
bad_prefixes == {<<"materia">>}

StartsWith(ln, p) == Len(ln) >= Len(p) /\ SubSeq(ln, 1, Len(p)) = p

\* lines 90-108: the line is kept
CourseLike(ln) ==
    LET lnl == StrLower(ln)
    IN  /\ \A b \in bad_contains : ~Contains(lnl, b)
        /\ \A q \in bad_prefixes : ~StartsWith(lnl, q)
        /\ \E i \in 1..Len(ln) : HasLetter(ln[i])
        /\ ~(ln # <<>> /\ \A i \in 1..Len(ln) : ~HasLetter(ln[i]))
        /\ WordCount(ln) >= 2

\* the seen/uniq loops of lines 110-117 and 174-176, by halves: the second
\* half is scanned with the keys of the first half already seen
RECURSIVE DedupeLines(_, _)
DedupeLines(xs, seen) ==
    IF xs = <<>> THEN <<>>
    ELSE IF Len(xs) = 1 THEN (IF StrLower(xs[1]) \in seen THEN <<>> ELSE xs)
    ELSE LET h == Len(xs) \div 2
             left == SubSeq(xs, 1, h)
         IN  DedupeLines(left, seen)
                 \o DedupeLines(SubSeq(xs, h + 1, Len(xs)),
                                seen \cup {StrLower(left[i]) : i \in 1..h})

\* lines 68-119
_extract_course_like_lines_from_text(text) ==
    LET split == SplitLines(text)
        lines == [i \in 1..Len(split) |-> _clean_text(split[i])]
        InLength(x) == 6 <= StrLen(x) /\ StrLen(x) <= 90
        out == SelectSeq(SelectSeq(lines, InLength), CourseLike)
    IN  Prefix(DedupeLines(out, {}), CourseCap)

\* re.search(r"\b(ects|...)\b", l), for the words of the model
HasCreditWord(l) ==
    \E i \in 1..Len(l) :
        /\ l[i] = "ects"
        /\ i = 1 \/ ~IsWordToken(l[i - 1])
        /\ i = Len(l) \/ ~IsWordToken(l[i + 1])

\* lines 154-172: the line is kept
FinalKeeps(ln) ==
    LET l == StrLower(ln)
    IN  /\ StrLen(ln) >= 8
        /\ ~HasCreditWord(l)
        /\ ~StartsWith(l, <<"materia">>)
        /\ Contains(l, <<"facultad">>) => Contains(l, <<"redes">>)
        /\ ~(Contains(ln, <<":">>) /\ WordCount(ln) <= 4)

\* lines 131-178
_final_filter_and_dedupe(courses) ==
    IF courses = <<>> THEN <<>>
    ELSE Prefix(DedupeLines(SelectSeq(courses, FinalKeeps), {}), CourseCap)

\* the extractor: the per-source filter followed by the final filter
ExtractText(text) ==
    _final_filter_and_dedupe(_extract_course_like_lines_from_text(text))

\* lines of the texts
RawLines ==
    { <<>>,
      <<"Redes", " ", "I">>,
      <<"Algebra", " ", "Lineal">>,
      <<" ", "ALGEBRA", "\t", " ", " ", "LINEAL", " ">>,
      <<"Redes", " ", "Lineal">>,
      <<"cookies", " ", "Redes">>,
      <<"aviso", "\t", "legal", " ", "Redes">>,
      <<"Materia", " ", "Algebra">>,
      <<"2024", " ", ":", " ", "2024">>,
      <<"AlgebraLineal">>,
      <<"Algebra", " ", "6", " ", "ECTS">>,
      <<"Facultad", " ", "Algebra">>,
      <<"Facultad", " ", "Redes">>,
      <<"Redes", ":", " ", "Algebra">>,
      <<"Interdisciplinariedades tecnologicas contemporaneas y fundamentos epistemologicos avanzados",
        " ", "I">> }

\* a text with more distinct course lines than the cap
LongText == [i \in 1..(CourseCap + 1) |-> <<"Redes", " ", ToString(i), " ", "Lineal">>]

Texts ==
    {JoinLines(ls) : ls \in SeqsUpTo(RawLines, MaxLines)} \cup {JoinLines(LongText)}

TInit ==
    /\ MatcherIdle
    /\ my_courses = <<>>
    /\ OrchestratorIdle
    /\ RestIdle
    /\ DiscoverIdle
    /\ ExtractIdle
    /\ ScrapeIdle
    /\ RankIdle
    /\ tpc = "call"
    /\ t_text \in Texts
    /\ t_out = <<>>
    /\ t_again = <<>>

\* the extractor applied to the text
ExtractOnce ==
    /\ tpc = "call"
    /\ tpc' = "once"
    /\ t_out' = ExtractText(t_text)
    /\ UNCHANGED <<mvars, my_courses, ovars, dvars, evars, svars, kvars, fvars, t_text, t_again>>

\* the extractor applied to its own output, joined with newlines
ExtractAgain ==
    /\ tpc = "once"
    /\ tpc' = "twice"
    /\ t_again' = ExtractText(JoinLines(t_out))
    /\ UNCHANGED <<mvars, my_courses, ovars, dvars, evars, svars, kvars, fvars, t_text, t_out>>

TNext == ExtractOnce \/ ExtractAgain

TextSpec == TInit /\ [][TNext]_vars

\* C18: for every text, the extractor applied to the newline-joined lines it
\* returned gives the same lines in the same order.
C18_ExtractorIsIdempotent ==
    tpc = "twice" => t_again = t_out

\* the first application removed a line, cleaned one and dropped a repeated
\* one, and the second returned the two lines it was given
C18_Witness ==
    /\ tpc = "twice"
    /\ t_text = JoinLines(<< <<" ", "ALGEBRA", "\t", " ", " ", "LINEAL", " ">>,
                            <<"Facultad", " ", "Redes">>,
                            <<"Algebra", " ", "Lineal">> >>)
    /\ t_out = << <<"ALGEBRA", " ", "LINEAL">>, <<"Facultad", " ", "Redes">> >>
    /\ t_again = t_out

(***************************************************************************)
(* run.py: _score_url, called for one URL before and after calls for       *)
(* other URLs.                                                             *)
(***************************************************************************)
MaxOtherCalls == 1

NewsUrl == <<"https://www.upm.es/", "noticia", "/", "informatica">>

CoursesUrl == <<"http://www.unileon.es/", "asignaturas", ".PDF">>

RankUrls == {HtmlUrl, PdfUrl, NewsUrl, CoursesUrl, OtherUrl}

RankQueries == {<<"grado", " ", "informatica">>, <<"Grado", " ", "INFORMATICA">>,
                <<"grado", " ", "fisica">>}

\* preferred domains, as their labels; <<>> is the empty string
RankDomains == {<<>>, <<"upm", "es">>, <<"UNILEON", "es">>}

\* str.lower() of the words of queries and domains
WordLower(w) ==
    CASE w = "Grado" -> "grado"
      [] w = "INFORMATICA" -> "informatica"
      [] w = "UNILEON" -> "unileon"
      [] OTHER -> Lower(w)

WordsLower(ws) == [i \in 1..Len(ws) |-> WordLower(ws[i])]

\* lines 80-84: urlparse(url).netloc.lower(), as labels
_domain(url) ==
    IF url = <<>> THEN <<>>
    ELSE CASE url[1] = "https://www.upm.es/" -> <<"www", "upm", "es">>
           [] url[1] = "http://www.unileon.es/" -> <<"www", "unileon", "es">>
           [] url[1] = "https://www.facebook.es/" -> <<"www", "facebook", "es">>
           [] url[1] = "https://www.upm.es:8443/" -> <<"www", "upm", "es:8443">>
           [] url[1] = "https://cdn.example.com/" -> <<"cdn", "example", "com">>
           [] OTHER -> <<>>

\* a.endswith("." + b)
EndsWithDot(a, b) ==
    b # <<>> /\ Len(b) < Len(a) /\ SubSeq(a, Len(a) - Len(b) + 1, Len(a)) = b

\* lines 123-132
_matches_preferred_domain(d, preferred_domains) ==
    /\ d # <<>>
    /\ \E i \in 1..Len(preferred_domains) :
          LET pd == Strip(WordsLower(preferred_domains[i]), Whitespace)
          IN  /\ pd # <<>>
              /\ d = pd \/ EndsWithDot(d, pd) \/ EndsWithDot(pd, d)

\* the keywords of lines 147-157 and 169 that a part of a URL contains
KeywordsIn(part) ==
    CASE part = "plan-de-estudios" -> {"plan-de-estudios", "plan"}
      [] part = "asignaturas" -> {"asignaturas"}
      [] part = "noticia" -> {"noticia"}
      [] part = "informatica" -> {"informatica"}
      [] OTHER -> {}

\* kw in u
KwIn(kw, u) == \E i \in 1..Len(u) : kw \in KeywordsIn(u[i])

\* lines 147-157
strong ==
    << <<"plan-de-estudios", 40>>, <<"plan_estudios", 40>>, <<"plan de estudios", 30>>,
       <<"asignaturas", 40>>, <<"guia-docente", 40>>, <<"guia_docente", 40>>,
       <<"guia docente", 30>>, <<"ects", 20>>, <<"plan", 15>> >>

\* line 169
bad ==
    << <<"noticia", 20>>, <<"news", 20>>, <<"evento", 15>>, <<"blog", 20>>,
       <<"ranking", 20>> >>

ScoreReason(pts, why, what) == [pts |-> pts, why |-> why, what |-> what]

\* the loops of lines 158-161 and 170-173 from entry i on
RECURSIVE KeywordLoop(_, _, _, _, _)
KeywordLoop(table, sign, u, i, acc) ==
    IF i > Len(table) THEN acc
    ELSE IF KwIn(table[i][1], u)
         THEN KeywordLoop(table, sign, u, i + 1,
                          Scored(acc.score + sign * table[i][2],
                                 Append(acc.reasons,
                                        ScoreReason(sign * table[i][2], "contiene",
                                                <<table[i][1]>>))))
         ELSE KeywordLoop(table, sign, u, i + 1, acc)

\* a reasons list that is shared by the calls
NewList_Shared == k_history

\* line 138: reasons = [], a new list in every call
NewList == <<>>

\* lines 135-180
_score_url(url, query, preferred_domains) ==
    LET u == LowerSeq(url)
        d == _domain(url)
        a0 == Scored(0, NewList)
        a1 == IF _matches_preferred_domain(d, preferred_domains)
              THEN Scored(a0.score + 70,
                          Append(a0.reasons, ScoreReason(70, "dominio preferido", d)))
              ELSE a0
        a2 == KeywordLoop(strong, 1, u, 1, a1)
        a3 == IF _is_pdf(url)
              THEN Scored(a2.score + 25, Append(a2.reasons, ScoreReason(25, "es PDF", <<>>)))
              ELSE a2
        a4 == KeywordLoop(bad, -1, u, 1, a3)
        q == WordsLower(query)
    IN  IF Contains(q, <<"informatica">>) /\ KwIn("informatica", u)
        THEN Scored(a4.score + 10,
                    Append(a4.reasons, ScoreReason(10, "relacionado con informatica", <<>>)))
        ELSE a4

KInit ==
    /\ MatcherIdle
    /\ my_courses = <<>>
    /\ OrchestratorIdle
    /\ RestIdle
    /\ DiscoverIdle
    /\ ExtractIdle
    /\ ScrapeIdle
    /\ TextIdle
    /\ kpc = "call"
    /\ k_url \in RankUrls
    /\ k_query \in RankQueries
    /\ k_domains \in SeqsUpTo(RankDomains, 2)
    /\ k_history = <<>>
    /\ k_others = 0
    /\ k_first = Scored(0, <<>>)
    /\ k_second = Scored(0, <<>>)

\* the first call for k_url
ScoreFirst ==
    /\ kpc = "call"
    /\ kpc' = "once"
    /\ k_first' = _score_url(k_url, k_query, k_domains)
    /\ k_history' = k_first'.reasons
    /\ UNCHANGED <<mvars, my_courses, ovars, dvars, evars, svars, tvars, fvars, k_url,
                   k_query, k_domains, k_others, k_second>>

\* a call for another URL, query and domain list, before or between the two
ScoreOther ==
    /\ kpc \in {"call", "once"}
    /\ k_others < MaxOtherCalls
    /\ k_others' = k_others + 1
    /\ \E url \in RankUrls \ {k_url}, query \in RankQueries :
          k_history' = _score_url(url, query, <<>>).reasons
    /\ UNCHANGED <<mvars, my_courses, ovars, dvars, evars, svars, tvars, fvars, kpc,
                   k_url,
                   k_query, k_domains, k_first, k_second>>

\* the second call for k_url
ScoreSecond ==
    /\ kpc = "once"
    /\ kpc' = "twice"
    /\ k_second' = _score_url(k_url, k_query, k_domains)
    /\ k_history' = k_second'.reasons
    /\ UNCHANGED <<mvars, my_courses, ovars, dvars, evars, svars, tvars, fvars, k_url,
                   k_query, k_domains, k_others, k_first>>

KNext == ScoreFirst \/ ScoreOther \/ ScoreSecond

RankSpec == KInit /\ [][KNext]_vars

WrittenTelemetry ==
    IF e_out.sources.kind = "dict" THEN e_out.sources.body.telemetry ELSE <<>>

\* C21 as stated: every telemetry entry of a written sources artifact has the
\* fields url, kind, extracted_lines and error, its kind is html, pdf or
\* pdf_fallback, and the entry of a URL that is no PDF and whose HTML fetch
\* failed has kind pdf_fallback and a non-empty error.
C21_FallbackKindAndErrorRecorded ==
    epc = "done" =>
        \A k \in 1..Len(WrittenTelemetry) :
            LET t == WrittenTelemetry[k]
            IN  /\ t.fields = {"url", "kind", "extracted_lines", "error"}
                /\ t.kind \in {"html", "pdf", "pdf_fallback"}
                /\ (~_is_pdf(t.url) /\ e_fetch[t.url] # "ok")
                      => (t.kind = "pdf_fallback" /\ t.error # "")

(***************************************************************************)
(* agents/web_researcher.py: the fetch cache of _download_bytes and of the *)
(* HTML path of scrape_courses_from_urls, over any sequence of fetches.    *)
(***************************************************************************)
BinMin == 50
HtmlMin == 200

CacheUrls == {HtmlUrl, PdfUrl}

\* sizes of the content a server returns
ContentSizes == {0, BinMin, BinMin + 1, HtmlMin, HtmlMin + 1}

\* a cache that serves every file it finds
BinCached_AnySize(size) == size >= 0

\* line 195: path.exists() and path.stat().st_size > 50
BinCached(size) == size >= 0 /\ size > BinMin

\* line 263: html_path.exists() and html_path.stat().st_size > 200
HtmlCached(size) == size >= 0 /\ size > HtmlMin

CInit ==
    /\ MatcherIdle
    /\ my_courses = <<>>
    /\ OrchestratorIdle
    /\ DiscoverIdle
    /\ ExtractIdle
    /\ ScrapeIdle
    /\ TextIdle
    /\ RankIdle
    /\ QueryIdle
    /\ GatherIdle
    /\ cpc = "run"
    /\ c_bin = [u \in CacheUrls |-> -1]
    /\ c_html = [u \in CacheUrls |-> -1]
    /\ c_last = NoFetch

\* lines 190-205: _download_bytes(url); the request raises or returns content,
\* and the write of the cache file works or fails silently
DownloadBytes ==
    /\ cpc = "run"
    /\ \E url \in CacheUrls :
          IF BinCached(c_bin[url])
          THEN /\ c_last' = Fetch("download", url, c_bin[url], FALSE, TRUE, FALSE)
               /\ UNCHANGED c_bin
          ELSE \/ /\ c_last' = Fetch("download", url, c_bin[url], TRUE, FALSE, TRUE)
                  /\ UNCHANGED c_bin
               \/ \E size \in ContentSizes, written \in BOOLEAN :
                     /\ c_last' = Fetch("download", url, c_bin[url], TRUE, FALSE, FALSE)
                     /\ c_bin' = IF written THEN [c_bin EXCEPT ![url] = size] ELSE c_bin
    /\ UNCHANGED <<mvars, my_courses, ovars, dvars, evars, svars, tvars, kvars, qvars, gvars,
                   cpc,
                   c_html>>

\* lines 258-271: the HTML of href, from the cache or from the browser
LoadHtml ==
    /\ cpc = "run"
    /\ \E url \in CacheUrls :
          IF HtmlCached(c_html[url])
          THEN /\ c_last' = Fetch("html", url, c_html[url], FALSE, TRUE, FALSE)
               /\ UNCHANGED c_html
          ELSE \/ /\ c_last' = Fetch("html", url, c_html[url], TRUE, FALSE, TRUE)
                  /\ UNCHANGED c_html
               \/ \E size \in ContentSizes, written \in BOOLEAN :
                     /\ c_last' = Fetch("html", url, c_html[url], TRUE, FALSE, FALSE)
                     /\ c_html' = IF written THEN [c_html EXCEPT ![url] = size] ELSE c_html
    /\ UNCHANGED <<mvars, my_courses, ovars, dvars, evars, svars, tvars, kvars, qvars, gvars,
                   cpc,
                   c_bin>>

CNext == DownloadBytes \/ LoadHtml

CacheSpec == CInit /\ [][CNext]_vars

MaxDomains == 2
SiteCap == 6

\* free-text queries, as words and spaces
FreeTexts == {<<"grado", " ", "informatica">>, <<" ", "plan", " ", "estudios", " ">>}

\* preferred domains as given by the caller: padded, blank or empty ones too
DomainPool == {<<"upm.es">>, <<" ", "unileon.es", " ">>, <<" ">>, <<>>}

\* more domains than one query carries
SevenDomains ==
    << <<"upm.es">>, <<"unileon.es">>, <<"uva.es">>, <<"usal.es">>, <<"ubu.es">>,
       <<"uam.es">>, <<"ucm.es">> >>

DomainLists == SeqsUpTo(DomainPool, MaxDomains) \cup {SevenDomains}

\* [d.strip() for d in (preferred_domains or []) if (d or "").strip()]
RECURSIVE NonBlank(_)
NonBlank(ds) ==
    IF ds = <<>> THEN <<>>
    ELSE LET d == Strip(Head(ds), Whitespace)
         IN  (IF d = <<>> THEN <<>> ELSE <<d>>) \o NonBlank(Tail(ds))

\* " OR ".join([f"site:{d}" for d in doms])
RECURSIVE JoinSites(_)
JoinSites(doms) ==
    IF doms = <<>> THEN <<>>
    ELSE IF Len(doms) = 1 THEN <<"site:">> \o doms[1]
    ELSE <<"site:">> \o doms[1] \o <<" OR ">> \o JoinSites(Tail(doms))

\* lines 341-352
_build_query_with_sites(query, preferred_domains) ==
    LET q == Strip(query, Whitespace)
        doms == NonBlank(preferred_domains)
    IN  IF doms = <<>> THEN q
        ELSE q \o <<" ", "(">> \o JoinSites(Prefix(doms, SiteCap)) \o <<")">>

\* line 408: query.replace(" ", "+")
PlusForSpace(query) == [i \in 1..Len(query) |-> IF query[i] = " " THEN "+" ELSE query[i]]

QInit ==
    /\ MatcherIdle
    /\ my_courses = <<>>
    /\ OrchestratorIdle
    /\ DiscoverIdle
    /\ ExtractIdle
    /\ ScrapeIdle
    /\ TextIdle
    /\ RankIdle
    /\ CacheIdle
    /\ GatherIdle
    /\ qpc = "call"
    /\ q_query \in FreeTexts
    /\ q_domains \in DomainLists
    /\ q_primary = <<>>
    /\ q_fallback = <<>>

\* lines 372-376 and 400-402: the key is set, the built query is submitted,
\* and the search answers or raises
SubmitPrimary ==
    /\ qpc = "call"
    /\ q_primary' = _build_query_with_sites(q_query, q_domains)
    /\ \E raised \in BOOLEAN : qpc' = IF raised THEN "fallback" ELSE "done"
    /\ UNCHANGED <<mvars, my_courses, ovars, dvars, evars, svars, tvars, kvars, cvars,
                   gvars, q_query, q_domains, q_fallback>>

\* line 372: no key, the primary provider is not asked
SkipPrimary ==
    /\ qpc = "call"
    /\ qpc' = "fallback"
    /\ UNCHANGED <<mvars, my_courses, ovars, dvars, evars, svars, tvars, kvars, cvars,
                   gvars, q_query, q_domains, q_primary, q_fallback>>

\* lines 408-414: the fallback search page is opened
SubmitFallback ==
    /\ qpc = "fallback"
    /\ q_fallback' = PlusForSpace(q_query)
    /\ qpc' = "done"
    /\ UNCHANGED <<mvars, my_courses, ovars, dvars, evars, svars, tvars, kvars, cvars,
                   gvars, q_query, q_domains, q_primary>>

QNext == SubmitPrimary \/ SkipPrimary \/ SubmitFallback

QuerySpec == QInit /\ [][QNext]_vars

\* the submitted text with "+" read as a space and outer spaces dropped
Decoded(text) ==
    Strip([i \in 1..Len(text) |-> IF text[i] = "+" THEN " " ELSE text[i]], Whitespace)

\* text carries the free text, and one site: term per non-blank domain when
\* there is one, and is the free text alone when there is none
CarriesSites(text) ==
    LET doms == NonBlank(q_domains)
    IN  IF doms = <<>>
        THEN Decoded(text) = Strip(q_query, Whitespace)
        ELSE /\ Contains(Decoded(text), Strip(q_query, Whitespace))
             /\ \A i \in 1..Len(doms) : Contains(text, <<"site:">> \o doms[i])

\* C23: with preferred domains, the text submitted to the primary provider
\* and the text submitted to the fallback both hold the free-text query and a
\* site: term for every non-blank preferred domain; with none, the free-text
\* query is submitted as it is.
C23_EverySubmittedQueryCarriesSites ==
    qpc = "done" =>
        /\ q_primary # <<>> => CarriesSites(q_primary)
        /\ q_fallback # <<>> => CarriesSites(q_fallback)

(***************************************************************************)
(* run.py: _discover_and_rank, lines 183-215, with the two discovery calls *)
(* as the environment answers them.                                        *)
(***************************************************************************)
MaxRaw == 2

\* URLs on a social network, on a port of the institution, and elsewhere
SocialUrl == <<"https://www.facebook.es/", "upm">>
PortUrl == <<"https://www.upm.es:8443/", "plan-de-estudios">>
ComPdfUrl == <<"https://cdn.example.com/", "guia", ".pdf">>
ComUrl == <<"https://cdn.example.com/", "grado">>

GatherPool ==
    {HtmlUrl, PdfUrl, PdfUrlQuery, NewsUrl, CoursesUrl, OtherUrl,
     SocialUrl, PortUrl, ComPdfUrl, ComUrl}

\* what discover_program_pages returns: a list without repetition, or it raises
FirstReturns == {r \in SeqsUpTo(GatherPool, MaxRaw) : NoDuplicates(r)}

SecondReturns ==
    { <<>>,
      <<PdfUrl, HtmlUrl, PdfUrlQuery, CoursesUrl, NewsUrl>>,
      <<PortUrl, SocialUrl, ComPdfUrl, ComUrl, OtherUrl>> }

ProgramQuery == <<"grado", " ", "informatica">>

\* line 190: f"{uni} {query}"
q1(uni, query) == uni \o <<" ">> \o query

\* line 191: f"{uni} {query} pdf"
q2(uni, query) == uni \o <<" ">> \o query \o <<" ", "pdf">>

\* a list that keeps every occurrence
_dedupe_keep_order_KeepAll(urls) == urls

\* lines 93-100
_dedupe_keep_order(urls) == DedupeExact(urls)

\* line 109: any(x in d for x in ("facebook.", "twitter.", ...))
SocialLabels == {"facebook", "twitter", "tiktok", "instagram", "linkedin", "youtube"}

OnSocial(d) == \E i \in 1..(Len(d) - 1) : d[i] \in SocialLabels

\* line 113: d.endswith(".es") or d.endswith(".edu") or d.endswith(".edu.es")
AcademicTld(d) == Len(d) >= 2 /\ d[Len(d)] \in {"es", "edu"}

\* lines 105-118: the loop body
Officialish(url) ==
    LET d == _domain(url)
    IN  /\ d # <<>>
        /\ ~OnSocial(d)
        /\ AcademicTld(d) \/ _is_pdf(url)

RECURSIVE SelectOfficialish(_)
SelectOfficialish(urls) ==
    IF urls = <<>> THEN <<>>
    ELSE (IF Officialish(Head(urls)) THEN <<Head(urls)>> ELSE <<>>)
             \o SelectOfficialish(Tail(urls))

\* lines 103-120
_filter_officialish(urls) == _dedupe_keep_order(SelectOfficialish(urls))

\* lines 201-206
Candidate(url, query, preferred_domains) ==
    LET sc == _score_url(url, query, preferred_domains)
    IN  [url |-> url, domain |-> _domain(url), score |-> sc.score,
         reasons |-> sc.reasons, is_pdf |-> _is_pdf(url)]

\* c placed after every candidate of cs whose score is not lower
RECURSIVE InsertByScore(_, _)
InsertByScore(cs, c) ==
    IF cs = <<>> THEN <<c>>
    ELSE IF Head(cs).score >= c.score THEN <<Head(cs)>> \o InsertByScore(Tail(cs), c)
    ELSE <<c>> \o cs

\* a sort that puts a later candidate before the earlier ones of its score
RECURSIVE SortByScore_TiesReversed(_)
SortByScore_TiesReversed(cs) ==
    IF cs = <<>> THEN <<>>
    ELSE LET rest == SortByScore_TiesReversed(SubSeq(cs, 1, Len(cs) - 1))
             c == cs[Len(cs)]
             before == SelectSeq(rest, LAMBDA x : x.score > c.score)
             after == SelectSeq(rest, LAMBDA x : x.score <= c.score)
         IN  before \o <<c>> \o after

\* line 208: candidates.sort(key=score, reverse=True), a stable sort
RECURSIVE SortByScore(_)
SortByScore(cs) ==
    IF cs = <<>> THEN <<>>
    ELSE InsertByScore(SortByScore(SubSeq(cs, 1, Len(cs) - 1)), cs[Len(cs)])

Urls(cs) == [i \in 1..Len(cs) |-> cs[i].url]

Ranking(queries, selected, candidates) ==
    [raised |-> FALSE, queries |-> queries, selected |-> selected,
     candidates |-> candidates]

Raised == [raised |-> TRUE, queries |-> <<>>, selected |-> <<>>, candidates |-> <<>>]

GInit ==
    /\ MatcherIdle
    /\ my_courses = <<>>
    /\ OrchestratorIdle
    /\ DiscoverIdle
    /\ ExtractIdle
    /\ ScrapeIdle
    /\ TextIdle
    /\ RankIdle
    /\ CacheIdle
    /\ QueryIdle
    /\ gpc = "q1"
    /\ g_uni \in {UPM, ULE}
    /\ g_domains \in {<<>>, << <<"upm", "es">> >>}
    /\ g_top_k \in {4, 5}
    /\ g_calls = <<>>
    /\ g_raw1 = <<>>
    /\ g_raw2 = <<>>
    /\ g_raw = <<>>
    /\ g_out = NoRanking

\* line 194: the first discovery
DiscoverPlain ==
    /\ gpc = "q1"
    /\ g_calls' = Append(g_calls, q1(g_uni, ProgramQuery))
    /\ \/ /\ g_out' = Raised
          /\ gpc' = "done"
          /\ UNCHANGED g_raw1
       \/ /\ g_raw1' \in FirstReturns
          /\ gpc' = "q2"
          /\ UNCHANGED g_out
    /\ UNCHANGED <<mvars, my_courses, ovars, dvars, evars, svars, tvars, kvars, cvars,
                   qvars, g_uni, g_domains, g_top_k, g_raw2, g_raw>>

\* lines 195-215: the second discovery, then dedupe, filter, score, sort, select
DiscoverPdfAndRank ==
    /\ gpc = "q2"
    /\ g_calls' = Append(g_calls, q2(g_uni, ProgramQuery))
    /\ gpc' = "done"
    /\ \/ /\ g_out' = Raised
          /\ UNCHANGED <<g_raw2, g_raw>>
       \/ \E returned \in SecondReturns :
             LET raw == _dedupe_keep_order(g_raw1 \o returned)
                 filtered == _filter_officialish(raw)
                 scored == [i \in 1..Len(filtered) |->
                               Candidate(filtered[i], ProgramQuery, g_domains)]
                 candidates == SortByScore(scored)
             IN  /\ g_raw2' = returned
                 /\ g_raw' = raw
                 /\ g_out' = Ranking(<<q1(g_uni, ProgramQuery), q2(g_uni, ProgramQuery)>>,
                                     Urls(Prefix(candidates, Max2(1, g_top_k))),
                                     candidates)
    /\ UNCHANGED <<mvars, my_courses, ovars, dvars, evars, svars, tvars, kvars, cvars,
                   qvars, g_uni, g_domains, g_top_k, g_raw1>>

GNext == DiscoverPlain \/ DiscoverPdfAndRank

GatherSpec == GInit /\ [][GNext]_vars

\* position of the first occurrence of u in xs
FirstIndex(xs, u) == CHOOSE i \in 1..Len(xs) : xs[i] = u /\ \A j \in 1..(i - 1) : xs[j] # u

\* raw is the two results in call order, each URL once, first occurrences in order
DedupedInOrder ==
    LET all == g_raw1 \o g_raw2
    IN  /\ NoDuplicates(g_raw)
        /\ Range(g_raw) = Range(all)
        /\ \A i, j \in 1..Len(g_raw) :
              i < j => FirstIndex(all, g_raw[i]) < FirstIndex(all, g_raw[j])

\* C24 as stated: every run of the discovery issues exactly two discovery
\* calls, the plain query and then the query plus "pdf", and the two results
\* are concatenated in that order and deduplicated keeping first occurrences.
C24_AlwaysTwoCallsThenDedupe ==
    gpc = "done" =>
        /\ g_calls = <<q1(g_uni, ProgramQuery), q2(g_uni, ProgramQuery)>>
        /\ DedupedInOrder

\* C24 amended: the plain query is always issued first; unless that call
\* raises, the query plus "pdf" is issued second and no other call is made;
\* when both return, the results are concatenated in that order and
\* deduplicated keeping first occurrences, with no sorting.
C24_TwoCallsUnlessFirstRaises ==
    gpc = "done" =>
        /\ g_calls # <<>>
        /\ g_calls = Prefix(<<q1(g_uni, ProgramQuery), q2(g_uni, ProgramQuery)>>, Len(g_calls))
        /\ Len(g_calls) = 1 => g_out.raised
        /\ ~g_out.raised =>
              /\ Len(g_calls) = 2
              /\ g_out.queries = g_calls
              /\ DedupedInOrder

\* both calls returned, the two results overlap, and the URL they share is
\* kept at its first place, ahead of a URL of higher score
C24_Witness ==
    /\ gpc = "done"
    /\ ~g_out.raised
    /\ g_raw1 = <<PdfUrlQuery, OtherUrl>>
    /\ g_raw2 = <<PdfUrl, HtmlUrl, PdfUrlQuery, CoursesUrl, NewsUrl>>
    /\ g_raw = <<PdfUrlQuery, OtherUrl, PdfUrl, HtmlUrl, CoursesUrl, NewsUrl>>

\* the candidates are in non-increasing order of score, and two of equal
\* score stand as their URLs stand in raw
RankedStably(cs) ==
    \A i, j \in 1..Len(cs) :
        i < j =>
            /\ cs[i].score >= cs[j].score
            /\ cs[i].score = cs[j].score =>
                  FirstIndex(g_raw, cs[i].url) < FirstIndex(g_raw, cs[j].url)

\* C25: the candidates are in non-increasing order of score, candidates of
\* equal score keep their order from the filtered discovery list, and the
\* selected URLs are the first top_k candidates in that order.
C25_StableRankingAndTopK ==
    (gpc = "done" /\ ~g_out.raised) =>
        /\ RankedStably(g_out.candidates)
        /\ g_out.selected = Urls(Prefix(g_out.candidates, g_top_k))
        /\ Len(g_out.selected) <= g_top_k

\* six candidates for top_k 4, two of them with the same score and found
\* after a candidate of lower score
C25_Witness ==
    /\ gpc = "done"
    /\ ~g_out.raised
    /\ g_top_k = 4
    /\ Len(g_out.candidates) = 6
    /\ Len(g_out.selected) = 4
    /\ \E i \in 1..5 :
          /\ g_out.candidates[i].score = g_out.candidates[i + 1].score
          /\ g_out.candidates[i].url = PdfUrlQuery
          /\ g_out.candidates[i + 1].url = PdfUrl
    /\ \E i, j \in 1..Len(g_raw) :
          /\ i < j
          /\ \E a, b \in 1..6 :
                /\ a > b
                /\ g_out.candidates[a].url = g_raw[i]
                /\ g_out.candidates[b].url = g_raw[j]

\* the host of a URL, without scheme and port, as labels
Host(url) ==
    IF url = <<>> THEN <<>>
    ELSE CASE url[1] = "https://www.upm.es/" -> <<"www", "upm", "es">>
           [] url[1] = "http://www.unileon.es/" -> <<"www", "unileon", "es">>
           [] url[1] = "https://www.facebook.es/" -> <<"www", "facebook", "es">>
           [] url[1] = "https://www.upm.es:8443/" -> <<"www", "upm", "es">>
           [] url[1] = "https://cdn.example.com/" -> <<"cdn", "example", "com">>
           [] OTHER -> <<>>

\* the URLs that reached the scoring
Admitted == Range(Urls(g_out.candidates))

\* C26: of the discovered URLs, every one on a social network is removed,
\* every other one whose domain ends in .es, .edu or .edu.es is admitted, and
\* one on any other domain is admitted if and only if it is a .pdf document.
C26_FilterByDomainOrPdf ==
    (gpc = "done" /\ ~g_out.raised) =>
        \A i \in 1..Len(g_raw) :
            LET url == g_raw[i]
                h == Host(url)
            IN  IF OnSocial(h) THEN url \notin Admitted
                ELSE IF AcademicTld(h) THEN url \in Admitted
                ELSE (url \in Admitted <=> _is_pdf(url))

(***************************************************************************)
(* Further properties of the orchestrator (specification Spec).            *)
(***************************************************************************)
\* C27: after any sequence of runs with any refresh flags, the links of an
\* institution's matches artifact are the first five selected URLs of its
\* current discovery artifact.
C27_MatchesLinksFollowDiscovery ==
    opc = "done" =>
        \A g \in Slugs :
            (/\ ValidMatches(match[g])
             /\ IsObject(disc[g]) /\ "selected" \in disc[g].keys
             /\ match[g].body.university = disc[g].body.university) =>
                match[g].body.links = Prefix(disc[g].body.selected, LinksCap)

\* the artifact is readable but is not a discovery with its selected URLs
InvalidDiscovery(f) == Readable(f) /\ ~(IsObject(f) /\ "selected" \in f.keys)

\* the artifact is readable but lacks match_pct or matches
InvalidMatches(f) == Readable(f) /\ ~({"match_pct", "matches"} \subseteq f.keys)

\* C28: a cached artifact that exists but is not valid for its stage does not
\* short-circuit the stage: the stage is computed again and the artifact is
\* rewritten.
C28_InvalidArtifactIsRecomputed ==
    /\ (DiscoveryRan /\ InvalidDiscovery(disc_found)) =>
          (disc_executed /\ disc[Slug] # disc_found)
    /\ (MatchingRan /\ InvalidMatches(match_found)) =>
          (match_executed /\ match[Slug] # match_found)

(***************************************************************************)
(* Further properties of lines 328-408 (specification ExtractSpec).        *)
(***************************************************************************)
\* the list passed to match_percentage_with_notes at line 371
HandedToMatcher == Extract(e_uni.name, e_links, e_fetch).uni_courses

\* the sources artifact was written: the extraction returned
Extracted == epc = "done" /\ e_out.sources.kind = "dict"

\* C29: for every institution and every extraction strategy, the course list
\* handed to the matcher has no two entries equal up to letter case and has
\* at most 300 entries.
C29_CandidatesCaselessUniqueAndCapped ==
    Extracted =>
        /\ Len(HandedToMatcher) <= CourseCap
        /\ \A i, j \in 1..Len(HandedToMatcher) :
              Lower(HandedToMatcher[i]) = Lower(HandedToMatcher[j]) => i = j

\* C30: in every sources artifact that is written, the URLs of links_used
\* are exactly the URLs that have a telemetry entry.
C30_LinksUsedAreTheTelemetryUrls ==
    Extracted =>
        Range(e_out.sources.body.links_used)
            = {WrittenTelemetry[k].url : k \in 1..Len(WrittenTelemetry)}

=============================================================================
